---- MODULE Spec2Model ----
(***************************************************************************)
(* Task management REST API (Flask): registration, login, JWT bearer       *)
(* authentication, role checks and task CRUD over a users table and a      *)
(* tasks table.                                                            *)
(*                                                                         *)
(* Text is modelled as a sequence of one-character strings, so that        *)
(* strip(), lower(), html.escape() and the e-mail pattern are computed     *)
(* character by character.  Time is counted in hours.                      *)
(***************************************************************************)
EXTENDS Integers, Sequences, FiniteSets, Bags, TLC

(***************************************************************************)
(* Bounds of the model                                                     *)
(***************************************************************************)
\* the clock is observed every ClockStep hours, up to MaxTime
ClockStep == 25
MaxTime == 25
\* rows ever inserted into users / tasks (AUTO_INCREMENT stays below this)
MaxUsers == 2
MaxTasks == 1
\* tokens handed out by login that clients still hold
MaxTokens == 1
\* listing: the tasks the listing user owns, and the pages asked for
MaxListed == 25
MaxPage == 4
\* tasks ever created where several tasks live side by side (SpecTasks)
MaxOwned == 2
\* longest stored title or description followed (SpecEscape)
MaxText == 10
\* task requests in flight at one time (SpecRace)
MaxRacing == 2
\* the connections of the pool (pool_size is 10 in init_db; the model
\* explores a smaller pool), and the requests in flight at a time
PoolSize == 2
MaxRequests == 3

(***************************************************************************)
(* Program constants                                                       *)
(***************************************************************************)
JWT_EXPIRY_HOURS == 24
MaxTitleLen == 200
MinPasswordLen == 8
DefaultPage == 1
DefaultLimit == 10
MaxLimit == 100
FindAllLimit == 100

JWT_SECRET_KEY == "default-jwt-secret"
valid_statuses == << <<"p","e","n","d","i","n","g">>,
                     <<"i","n","_","p","r","o","g","r","e","s","s">>,
                     <<"c","o","m","p","l","e","t","e","d">>,
                     <<"c","a","n","c","e","l","l","e","d">> >>

(***************************************************************************)
(* Text helpers (Python str methods used by the code)                      *)
(***************************************************************************)
UpperLetters == <<"A","B","C","D","E","F","G","H","I","J","K","L","M",
                  "N","O","P","Q","R","S","T","U","V","W","X","Y","Z">>
LowerLetters == <<"a","b","c","d","e","f","g","h","i","j","k","l","m",
                  "n","o","p","q","r","s","t","u","v","w","x","y","z">>
Digits == <<"0","1","2","3","4","5","6","7","8","9">>
Whitespace == {" ", "\t", "\n"}

Range(s) == {s[i] : i \in DOMAIN s}

IsUpper(c) == c \in Range(UpperLetters)
IsLower(c) == c \in Range(LowerLetters)
IsDigit(c) == c \in Range(Digits)
IsAlpha(c) == IsUpper(c) \/ IsLower(c)

\* str.lower(), one character
LowerChar(c) ==
    IF IsUpper(c)
    THEN LowerLetters[CHOOSE i \in DOMAIN UpperLetters : UpperLetters[i] = c]
    ELSE c

\* str.lower()
str_lower(s) == [i \in DOMAIN s |-> LowerChar(s[i])]

RECURSIVE lstrip(_)
lstrip(s) == IF s # <<>> /\ Head(s) \in Whitespace THEN lstrip(Tail(s)) ELSE s

RECURSIVE rstrip(_)
rstrip(s) ==
    IF s # <<>> /\ s[Len(s)] \in Whitespace
    THEN rstrip(SubSeq(s, 1, Len(s) - 1))
    ELSE s

\* str.strip()
str_strip(s) == rstrip(lstrip(s))

\* html.escape(c, quote=True), one character
EscapeChar(c) ==
    CASE c = "&"  -> <<"&","a","m","p",";">>
      [] c = "<"  -> <<"&","l","t",";">>
      [] c = ">"  -> <<"&","g","t",";">>
      [] c = "\"" -> <<"&","q","u","o","t",";">>
      [] c = "'"  -> <<"&","#","x","2","7",";">>
      [] OTHER    -> <<c>>

\* html.escape(s)
RECURSIVE html_escape(_)
html_escape(s) ==
    IF s = <<>> THEN <<>>
    ELSE IF Len(s) = 1 THEN EscapeChar(s[1])
    ELSE LET half == Len(s) \div 2
         IN  html_escape(SubSeq(s, 1, half)) \o html_escape(SubSeq(s, half + 1, Len(s)))

\* str(n) for a non-negative integer
RECURSIVE IntToStr(_)
IntToStr(n) ==
    IF n < 10 THEN <<Digits[n + 1]>>
    ELSE IntToStr(n \div 10) \o <<Digits[(n % 10) + 1]>>

Repeat(c, n) == [i \in 1..n |-> c]

(***************************************************************************)
(* JSON values of a request body: a key is absent, null, a string or a     *)
(* number.                                                                 *)
(***************************************************************************)
Absent == [t |-> "absent"]
JNull == [t |-> "null"]
JStr(s) == [t |-> "str", v |-> s]
JInt(n) == [t |-> "int", v |-> n]

\* data.get(key, default): the default is used only when the key is absent
dict_get(data, key, default) ==
    IF key \in DOMAIN data /\ data[key] # Absent THEN data[key] ELSE default

\* Python truthiness of a JSON value
Truthy(x) ==
    CASE x.t = "str" -> x.v # <<>>
      [] x.t = "int" -> x.v # 0
      [] OTHER       -> FALSE

(***************************************************************************)
(* utils/validators.py                                                     *)
(***************************************************************************)
\* sanitize_input(value): None -> '', non-strings through str(), then
\* strip() and html.escape()
sanitize_input(value) ==
    IF value.t = "null" THEN <<>>
    ELSE LET s == IF value.t = "str" THEN value.v ELSE IntToStr(value.v)
         IN  html_escape(str_strip(s))

LocalChars == {".", "_", "%", "+", "-"}
DomainChars == {".", "-"}

\* validate_email(email): ^[a-zA-Z0-9._%+-]+@[a-zA-Z0-9.-]+\.[a-zA-Z]{2,}$
validate_email(email) ==
    /\ email # <<>>
    /\ \E at \in DOMAIN email : \E dot \in DOMAIN email :
         /\ 1 < at /\ at + 1 < dot /\ dot + 2 <= Len(email)
         /\ email[at] = "@"
         /\ email[dot] = "."
         /\ \A i \in 1..(at - 1) :
               IsAlpha(email[i]) \/ IsDigit(email[i]) \/ email[i] \in LocalChars
         /\ \A i \in (at + 1)..(dot - 1) :
               IsAlpha(email[i]) \/ IsDigit(email[i]) \/ email[i] \in DomainChars
         /\ \A i \in (dot + 1)..Len(email) : IsAlpha(email[i])

\* validate_password(password): <<is_valid, message>>
validate_password(password) ==
    IF password = <<>> THEN <<FALSE, "Password is required">>
    ELSE IF Len(password) < MinPasswordLen
    THEN <<FALSE, "Password must be at least 8 characters long">>
    ELSE IF ~ \E i \in DOMAIN password : IsUpper(password[i])
    THEN <<FALSE, "Password must contain at least one uppercase letter">>
    ELSE IF ~ \E i \in DOMAIN password : IsLower(password[i])
    THEN <<FALSE, "Password must contain at least one lowercase letter">>
    ELSE IF ~ \E i \in DOMAIN password : IsDigit(password[i])
    THEN <<FALSE, "Password must contain at least one digit">>
    ELSE <<TRUE, "Password is valid">>

(***************************************************************************)
(* utils/password.py: bcrypt.  The digest is an ideal salted hash: the     *)
(* pair (salt, password) under the "bcrypt" tag, opaque to everything but  *)
(* checkpw, which recomputes it with the salt embedded in the hash.        *)
(***************************************************************************)
Salts == {"salt1"}

bcrypt_hashpw(password, salt) ==
    [alg |-> "bcrypt", rounds |-> 12, salt |-> salt, digest |-> <<salt, password>>]

\* hash_password(password), with the salt gensalt() drew
hash_password(password, salt) == bcrypt_hashpw(password, salt)

\* the password hashed again under a fresh salt and compared with the hash
verify_password_Rehash(password, password_hash) ==
    bcrypt_hashpw(password, "fresh") = password_hash

\* a check that lets every password through
verify_password_AnyPassword(password, password_hash) == TRUE

\* verify_password(password, password_hash)
verify_password(password, password_hash) ==
    bcrypt_hashpw(password, password_hash.salt) = password_hash

(***************************************************************************)
(* middleware/auth_middleware.py: token service (PyJWT, HS256)             *)
(***************************************************************************)
None == [t |-> "None"]

\* jwt.encode(payload, key, algorithm='HS256'): the signature is the MAC of
\* the payload under the key
jwt_encode(payload, key) ==
    [t |-> "jwt", alg |-> "HS256", payload |-> payload,
     sig |-> [key |-> key, over |-> payload]]

\* jwt.decode(token, key, algorithms=['HS256']) at time t: the payload, or
\* the exception raised
jwt_decode(token, key, t) ==
    IF token.t # "jwt" THEN [raised |-> "DecodeError"]
    ELSE IF token.alg # "HS256" THEN [raised |-> "InvalidAlgorithmError"]
    ELSE IF token.sig # [key |-> key, over |-> token.payload]
    THEN [raised |-> "InvalidSignatureError"]
    ELSE IF token.payload.exp <= t THEN [raised |-> "ExpiredSignatureError"]
    ELSE [raised |-> "", payload |-> token.payload]

\* timedelta(days=expiry_hours) in place of timedelta(hours=expiry_hours)
generate_token_Days(user_id, role, t) ==
    jwt_encode([user_id |-> user_id, role |-> role,
                iat |-> t, exp |-> t + JWT_EXPIRY_HOURS * 24],
               JWT_SECRET_KEY)

\* generate_token(user_id, role) at time t
generate_token(user_id, role, t) ==
    jwt_encode([user_id |-> user_id, role |-> role,
                iat |-> t, exp |-> t + JWT_EXPIRY_HOURS],
               JWT_SECRET_KEY)

\* one except clause for jwt.InvalidTokenError, which ExpiredSignatureError
\* derives from
decode_token_OneClause(token, t) ==
    LET d == jwt_decode(token, JWT_SECRET_KEY, t)
    IN  IF d.raised = "" THEN [payload |-> d.payload, log |-> ""]
        ELSE [payload |-> None, log |-> "Invalid token"]

\* jwt.decode(..., options={"verify_signature": False}): the payload of
\* anything shaped like a token
decode_token_Unverified(token, t) ==
    IF token.t = "jwt" THEN [payload |-> token.payload, log |-> ""]
    ELSE [payload |-> None, log |-> "Invalid token"]

\* decode_token(token) at time t: what it returns and the warning it logs
decode_token(token, t) ==
    LET d == jwt_decode(token, JWT_SECRET_KEY, t)
    IN  IF d.raised = "" THEN [payload |-> d.payload, log |-> ""]
        ELSE IF d.raised = "ExpiredSignatureError"
        THEN [payload |-> None, log |-> "Token expired"]
        ELSE [payload |-> None, log |-> "Invalid token"]

(***************************************************************************)
(* utils/responses.py                                                      *)
(***************************************************************************)
NoData == [t |-> "None"]

success_response(message, data, status_code) ==
    [status |-> status_code,
     body |-> IF data # NoData
              THEN [success |-> TRUE, message |-> message, data |-> data]
              ELSE [success |-> TRUE, message |-> message]]

error_response(message, status_code) ==
    [status |-> status_code, body |-> [success |-> FALSE, error |-> message]]

(***************************************************************************)
(* The store: the users and tasks tables behind execute_query.  st is the  *)
(* record [users, tasks, userSeq, taskSeq]; the Seq fields are the tables' *)
(* AUTO_INCREMENT counters.  A table is a set of rows.  An optional filter *)
(* argument (status, user_id) is a JSON-like value: absent, or a string or *)
(* number; "if status:" is its truthiness.                                 *)
(***************************************************************************)
Max(S) == CHOOSE x \in S : \A y \in S : y <= x

\* ORDER BY created_at DESC: the rows of a table, newest first.  created_at
\* is filled in by the database at INSERT, so it grows with the id; rows are
\* taken to be inserted at distinct times, which leaves the id to decide.
RECURSIVE OrderedByCreatedDesc(_)
OrderedByCreatedDesc(rows) ==
    IF rows = {} THEN <<>>
    ELSE LET newest == CHOOSE r \in rows : \A x \in rows : x.id <= r.id
         IN  <<newest>> \o OrderedByCreatedDesc(rows \ {newest})

\* SELECT ... WHERE pred ORDER BY ...: the rows of o that p keeps
RECURSIVE Keep(_, _)
Keep(o, p) ==
    IF o = <<>> THEN <<>>
    ELSE IF Head(o) \in p THEN <<Head(o)>> \o Keep(Tail(o), p)
    ELSE Keep(Tail(o), p)

\* LIMIT limit, the OFFSET left out
LimitOffset_NoOffset(o, limit, offset) ==
    SubSeq(o, 1, IF limit < Len(o) THEN limit ELSE Len(o))

\* LIMIT limit OFFSET offset
LimitOffset(o, limit, offset) ==
    SubSeq(o, offset + 1, IF offset + limit < Len(o) THEN offset + limit ELSE Len(o))

\* UserModel.create: INSERT INTO users, returns lastrowid
UserModel_create(st, email, password_hash, name, role) ==
    [st EXCEPT
       !.users = @ \cup {[id |-> st.userSeq, email |-> email,
                          password_hash |-> password_hash, name |-> name,
                          role |-> role]},
       !.userSeq = @ + 1]

\* SELECT ... WHERE name = %s
UserModel_find_by_email_ByName(st, email) ==
    IF \E u \in st.users : u.name = email
    THEN CHOOSE u \in st.users : u.name = email
    ELSE None

\* UserModel.find_by_email: the row or None
UserModel_find_by_email(st, email) ==
    IF \E u \in st.users : u.email = email
    THEN CHOOSE u \in st.users : u.email = email
    ELSE None

\* UserModel.find_by_id
UserModel_find_by_id(st, user_id) ==
    IF \E u \in st.users : u.id = user_id
    THEN CHOOSE u \in st.users : u.id = user_id
    ELSE None

\* UserModel.find_all
UserModel_find_all(st) == OrderedByCreatedDesc(st.users)

\* TaskModel.create: INSERT INTO tasks, returns lastrowid
TaskModel_create(st, title, description, status, user_id) ==
    [st EXCEPT
       !.tasks = @ \cup {[id |-> st.taskSeq, title |-> title,
                          description |-> description, status |-> status,
                          user_id |-> user_id]},
       !.taskSeq = @ + 1]

\* TaskModel.find_by_id
TaskModel_find_by_id(st, task_id) ==
    IF \E k \in st.tasks : k.id = task_id
    THEN CHOOSE k \in st.tasks : k.id = task_id
    ELSE None

\* TaskModel.find_by_user
TaskModel_find_by_user(st, user_id, status, limit, offset) ==
    LET o == OrderedByCreatedDesc(st.tasks)
        hit == {k \in st.tasks :
                  /\ k.user_id = user_id
                  /\ Truthy(status) => k.status = status.v}
    IN  LimitOffset(Keep(o, hit), limit, offset)

\* TaskModel.find_all
TaskModel_find_all(st, status, user_id, limit, offset) ==
    LET o == OrderedByCreatedDesc(st.tasks)
        hit == {k \in st.tasks :
                  /\ Truthy(status) => k.status = status.v
                  /\ Truthy(user_id) => k.user_id = user_id.v}
    IN  LimitOffset(Keep(o, hit), limit, offset)

\* TaskModel.count_by_user
TaskModel_count_by_user(st, user_id, status) ==
    Cardinality({k \in st.tasks :
                  /\ k.user_id = user_id
                  /\ Truthy(status) => k.status = status.v})

\* TaskModel.count_all
TaskModel_count_all(st, status) ==
    Cardinality({k \in st.tasks : Truthy(status) => k.status = status.v})

\* UPDATE tasks SET title, description, status, user_id = NULL WHERE id
TaskModel_update_Disowned(st, task_id, title, description, status) ==
    [st EXCEPT
       !.tasks = {IF k.id = task_id
                  THEN [k EXCEPT !.title = title, !.description = description,
                                 !.status = status, !.user_id = 0]
                  ELSE k : k \in @}]

\* TaskModel.update: UPDATE tasks SET title, description, status WHERE id
TaskModel_update(st, task_id, title, description, status) ==
    [st EXCEPT
       !.tasks = {IF k.id = task_id
                  THEN [k EXCEPT !.title = title, !.description = description,
                                 !.status = status]
                  ELSE k : k \in @}]

\* DELETE FROM tasks WHERE id <> %s
TaskModel_delete_Inverted(st, task_id) ==
    [st EXCEPT !.tasks = {k \in st.tasks : k.id = task_id}]

\* TaskModel.delete: DELETE FROM tasks WHERE id
TaskModel_delete(st, task_id) ==
    [st EXCEPT !.tasks = {k \in @ : k.id # task_id}]

(***************************************************************************)
(* Decorators                                                              *)
(***************************************************************************)
BEARER == <<"b","e","a","r","e","r">>
ADMIN == <<"a","d","m","i","n">>
USER == <<"u","s","e","r">>

\* a word of a header: plain text, or a token string
Text(s) == [t |-> "text", v |-> s]

\* parts[0].lower() == 'bearer'
IsBearer(word) == word.t = "text" /\ str_lower(word.v) = BEARER

\* the token taken whatever the scheme word is
BearerToken_AnyScheme(auth_header) ==
    IF auth_header # None /\ Len(auth_header.parts) = 2
    THEN auth_header.parts[2]
    ELSE None

\* token_required, lines 76-85: the token taken from the Authorization
\* header; auth_header is None or the header's whitespace-separated parts
BearerToken(auth_header) ==
    IF auth_header # None
       /\ Len(auth_header.parts) = 2 /\ IsBearer(auth_header.parts[1])
    THEN auth_header.parts[2]
    ELSE None

\* token_required.decorated, up to the call of the wrapped function:
\* either the response it returns itself, or the current_user it passes on
token_required(auth_header, t) ==
    LET token == BearerToken(auth_header)
    IN  IF token = None
        THEN [pass |-> FALSE,
              resp |-> error_response("Authentication token is required", 401)]
        ELSE LET payload == decode_token(token, t).payload
             IN  IF payload = None
                 THEN [pass |-> FALSE,
                       resp |-> error_response("Invalid or expired token", 401)]
                 ELSE [pass |-> TRUE,
                       current_user |-> [user_id |-> payload.user_id,
                                         role |-> payload.role]]

\* a role check any known role passes
admin_required_AnyRole(current_user) ==
    IF current_user.role \notin {ADMIN, USER}
    THEN [pass |-> FALSE,
          resp |-> error_response("Admin privileges required for this action", 403)]
    ELSE [pass |-> TRUE]

\* admin_required.decorated, up to the call of the wrapped function
admin_required(current_user) ==
    IF current_user.role # ADMIN
    THEN [pass |-> FALSE,
          resp |-> error_response("Admin privileges required for this action", 403)]
    ELSE [pass |-> TRUE]

\* role_required(*allowed_roles).decorated
role_required(allowed_roles, current_user) ==
    IF current_user.role \notin allowed_roles
    THEN [pass |-> FALSE, resp |-> error_response("Required role", 403)]
    ELSE [pass |-> TRUE]

(***************************************************************************)
(* Handlers.  Each returns R(resp, st, q): the response, the store after   *)
(* the handler, and the store calls it made, in order.                     *)
(***************************************************************************)
R(resp, st, q) == [resp |-> resp, st |-> st, q |-> q]

\* "if not data": an empty JSON object
IsEmptyDict(data) == \A k \in DOMAIN data : data[k] = Absent

\* the text of a JSON string, '' for anything falsy
TextOf(x) == IF x.t = "str" THEN x.v ELSE <<>>

\* the role stored as it was sent
register_role_Unchecked(role) == role

\* register: "if role not in ['user', 'admin']: role = 'user'"
register_role(role) == IF role \notin {USER, ADMIN} THEN USER ELSE role

\* routes/auth_routes.py register(); salt is the salt gensalt() draws
register(data, st, salt) ==
    IF IsEmptyDict(data)
    THEN R(error_response("Request body is required", 400), st, <<>>)
    ELSE
    LET email == sanitize_input(dict_get(data, "email", JStr(<<>>)))
        password == dict_get(data, "password", JStr(<<>>))
        name == sanitize_input(dict_get(data, "name", JStr(<<>>)))
        role0 == sanitize_input(dict_get(data, "role", JStr(USER)))
        role == register_role(role0)
    IN  IF email = <<>> \/ ~Truthy(password) \/ name = <<>>
        THEN R(error_response("Email, password, and name are required", 400), st, <<>>)
        ELSE IF ~validate_email(email)
        THEN R(error_response("Invalid email format", 400), st, <<>>)
        ELSE IF password.t # "str"
        THEN R(error_response("Registration failed", 500), st, <<>>)
        ELSE IF ~validate_password(password.v)[1]
        THEN R(error_response(validate_password(password.v)[2], 400), st, <<>>)
        ELSE IF UserModel_find_by_email(st, email) # None
        THEN R(error_response("Email already registered", 409), st,
               <<"UserModel.find_by_email">>)
        ELSE R(success_response("User registered successfully",
                                [user_id |-> st.userSeq, email |-> email], 201),
               UserModel_create(st, email, hash_password(password.v, salt),
                                name, role),
               <<"UserModel.find_by_email", "UserModel.create">>)

\* routes/auth_routes.py login()
login(data, st, t) ==
    IF IsEmptyDict(data)
    THEN R(error_response("Request body is required", 400), st, <<>>)
    ELSE
    LET email == sanitize_input(dict_get(data, "email", JStr(<<>>)))
        password == dict_get(data, "password", JStr(<<>>))
        user == UserModel_find_by_email(st, email)
    IN  IF email = <<>> \/ ~Truthy(password)
        THEN R(error_response("Email and password are required", 400), st, <<>>)
        ELSE IF user = None
        THEN R(error_response("Invalid email or password", 401), st,
               <<"UserModel.find_by_email">>)
        ELSE IF password.t # "str" \/ ~verify_password(TextOf(password), user.password_hash)
        THEN R(error_response("Invalid email or password", 401), st,
               <<"UserModel.find_by_email">>)
        ELSE R(success_response("Login successful",
                 [token |-> generate_token(user.id, user.role, t),
                  user |-> [id |-> user.id, email |-> user.email,
                            name |-> user.name, role |-> user.role]], 200),
               st, <<"UserModel.find_by_email">>)

\* the user fields a response shows (never the password hash); created_at,
\* which the database fills in, is left out of the model
UserView(user) ==
    [id |-> user.id, email |-> user.email, name |-> user.name,
     role |-> user.role]

\* routes/auth_routes.py get_current_user()
get_current_user(current_user, st) ==
    LET user == UserModel_find_by_id(st, current_user.user_id)
    IN  IF user = None
        THEN R(error_response("User not found", 404), st, <<"UserModel.find_by_id">>)
        ELSE R(success_response("User retrieved successfully", UserView(user), 200),
               st, <<"UserModel.find_by_id">>)

\* routes/auth_routes.py get_all_users()
get_all_users(current_user, st) ==
    LET found == UserModel_find_all(st)
    IN  R(success_response("Users retrieved successfully",
                           [users |-> [i \in DOMAIN found |-> UserView(found[i])],
                            total |-> Len(found)], 200),
          st, <<"UserModel.find_all">>)

\* a logout that closes the caller's account
logout_ClosingAccount(current_user, st) ==
    R(success_response("Logout successful. Please remove token from client.",
                       NoData, 200),
      [st EXCEPT !.users = {u \in @ : u.id # current_user.user_id}],
      <<"UserModel.delete">>)

\* routes/auth_routes.py logout()
logout(current_user, st) ==
    R(success_response("Logout successful. Please remove token from client.",
                       NoData, 200), st, <<>>)

PENDING == valid_statuses[1]
TRUE_TEXT == <<"t","r","u","e">>
FALSE_TEXT == <<"f","a","l","s","e">>

\* the task fields a response shows
TaskView(task) ==
    [id |-> task.id, title |-> task.title, description |-> task.description,
     status |-> task.status, user_id |-> task.user_id]

\* only an empty status refused
StatusValid_NonEmpty(status) == status # <<>>

\* create_task / update_task: "if status not in valid_statuses"
StatusValid(status) == status \in Range(valid_statuses)

\* create_task / update_task: the title checks; "" when the title passes
TitleError(title, empty_message) ==
    IF title = <<>> THEN empty_message
    ELSE IF Len(title) > MaxTitleLen THEN "Title must be less than 200 characters"
    ELSE ""

\* routes/task_routes.py create_task()
create_task(current_user, data, st) ==
    IF IsEmptyDict(data)
    THEN R(error_response("Request body is required", 400), st, <<>>)
    ELSE
    LET title == sanitize_input(dict_get(data, "title", JStr(<<>>)))
        description == sanitize_input(dict_get(data, "description", JStr(<<>>)))
        status == sanitize_input(dict_get(data, "status", JStr(PENDING)))
    IN  IF TitleError(title, "Task title is required") # ""
        THEN R(error_response(TitleError(title, "Task title is required"), 400), st, <<>>)
        ELSE IF ~StatusValid(status)
        THEN R(error_response("Invalid status. Must be one of: pending, in_progress, completed, cancelled", 400),
               st, <<>>)
        ELSE R(success_response("Task created successfully",
                                [task_id |-> st.taskSeq], 201),
               TaskModel_create(st, title, description, status,
                                current_user.user_id),
               <<"TaskModel.create">>)

\* int(request.args.get(name, default)) raises ValueError on text that is
\* no number
IntArgBad(x) == x # Absent /\ x.t # "int"

\* int(request.args.get(name, default))
IntArg(x, default) == IF x = Absent THEN default ELSE x.v

\* "if show_all", whatever the role
ListsAll_AnyRole(current_user, show_all) == show_all

\* get_tasks: "if show_all and current_user['role'] == 'admin'"
ListsAll(current_user, show_all) == show_all /\ current_user.role = ADMIN

\* routes/task_routes.py get_tasks()
get_tasks(current_user, args, st) ==
    LET show_all == str_lower(TextOf(dict_get(args, "all", JStr(FALSE_TEXT)))) = TRUE_TEXT
        status_filter == dict_get(args, "status", Absent)
        page0 == IntArg(args.page, DefaultPage)
        limit0 == IntArg(args.limit, DefaultLimit)
    IN  IF IntArgBad(args.page) \/ IntArgBad(args.limit)
        THEN R(error_response("Failed to retrieve tasks", 500), st, <<>>)
        ELSE
        LET page == IF page0 < 1 THEN 1 ELSE page0
            limit == IF limit0 < 1 \/ limit0 > MaxLimit THEN DefaultLimit ELSE limit0
            offset == (page - 1) * limit
            all == ListsAll(current_user, show_all)
            found == IF all
                     THEN TaskModel_find_all(st, status_filter, Absent, limit, offset)
                     ELSE TaskModel_find_by_user(st, current_user.user_id,
                                                 status_filter, limit, offset)
            total == IF all
                     THEN TaskModel_count_all(st, status_filter)
                     ELSE TaskModel_count_by_user(st, current_user.user_id,
                                                  status_filter)
        IN  R(success_response("Tasks retrieved successfully",
                [tasks |-> [i \in DOMAIN found |-> TaskView(found[i])],
                 pagination |-> [total |-> total, page |-> page, limit |-> limit,
                                 pages |-> (total + limit - 1) \div limit]], 200),
              st,
              IF all THEN <<"TaskModel.find_all", "TaskModel.count_all">>
              ELSE <<"TaskModel.find_by_user", "TaskModel.count_by_user">>)

\* the two tests joined by "or"
NotOwnerNorAdmin_Either(task, current_user) ==
    task.user_id # current_user.user_id \/ current_user.role # ADMIN

\* get_task / delete_task: "task['user_id'] != current_user['user_id'] and
\* current_user['role'] != 'admin'"
NotOwnerNorAdmin(task, current_user) ==
    task.user_id # current_user.user_id /\ current_user.role # ADMIN

\* the ownership test of get_task and delete_task, used for updates
NotOwner_AdminMayEdit(task, current_user) ==
    task.user_id # current_user.user_id /\ current_user.role # ADMIN

\* update_task: "task['user_id'] != current_user['user_id']"
NotOwner(task, current_user) == task.user_id # current_user.user_id

\* routes/task_routes.py get_task()
get_task(current_user, task_id, st) ==
    LET task == TaskModel_find_by_id(st, task_id)
    IN  IF task = None
        THEN R(error_response("Task not found", 404), st, <<"TaskModel.find_by_id">>)
        ELSE IF NotOwnerNorAdmin(task, current_user)
        THEN R(error_response("You do not have permission to view this task", 403),
               st, <<"TaskModel.find_by_id">>)
        ELSE R(success_response("Task retrieved successfully", TaskView(task), 200),
               st, <<"TaskModel.find_by_id">>)

\* routes/task_routes.py update_task()
update_task(current_user, task_id, data, st) ==
    LET task == TaskModel_find_by_id(st, task_id)
    IN  IF task = None
        THEN R(error_response("Task not found", 404), st, <<"TaskModel.find_by_id">>)
        ELSE IF NotOwner(task, current_user)
        THEN R(error_response("You do not have permission to update this task", 403),
               st, <<"TaskModel.find_by_id">>)
        ELSE IF IsEmptyDict(data)
        THEN R(error_response("Request body is required", 400), st,
               <<"TaskModel.find_by_id">>)
        ELSE
        LET title == sanitize_input(dict_get(data, "title", JStr(task.title)))
            description == sanitize_input(dict_get(data, "description",
                                                   JStr(task.description)))
            status == sanitize_input(dict_get(data, "status", JStr(task.status)))
        IN  IF TitleError(title, "Task title cannot be empty") # ""
            THEN R(error_response(TitleError(title, "Task title cannot be empty"), 400),
                   st, <<"TaskModel.find_by_id">>)
            ELSE IF ~StatusValid(status)
            THEN R(error_response("Invalid status. Must be one of: pending, in_progress, completed, cancelled", 400),
                   st, <<"TaskModel.find_by_id">>)
            ELSE R(success_response("Task updated successfully",
                     [id |-> task_id, title |-> title,
                      description |-> description, status |-> status], 200),
                   TaskModel_update(st, task_id, title, description, status),
                   <<"TaskModel.find_by_id", "TaskModel.update">>)

\* a delete_task that deletes before it checks the owner
delete_task_DeleteFirst(current_user, task_id, st) ==
    LET task == TaskModel_find_by_id(st, task_id)
    IN  IF task = None
        THEN R(error_response("Task not found", 404), st, <<"TaskModel.find_by_id">>)
        ELSE IF NotOwnerNorAdmin(task, current_user)
        THEN R(error_response("You do not have permission to delete this task", 403),
               TaskModel_delete(st, task_id),
               <<"TaskModel.find_by_id", "TaskModel.delete">>)
        ELSE R(success_response("Task deleted successfully", NoData, 200),
               TaskModel_delete(st, task_id),
               <<"TaskModel.find_by_id", "TaskModel.delete">>)

\* a delete_task that reads the caller's role from the users table
delete_task_StoredRole(current_user, task_id, st) ==
    LET task == TaskModel_find_by_id(st, task_id)
        row == UserModel_find_by_id(st, current_user.user_id)
        stored == [current_user EXCEPT !.role = IF row = None THEN <<>> ELSE row.role]
    IN  IF task = None
        THEN R(error_response("Task not found", 404), st, <<"TaskModel.find_by_id">>)
        ELSE IF NotOwnerNorAdmin(task, stored)
        THEN R(error_response("You do not have permission to delete this task", 403),
               st, <<"TaskModel.find_by_id">>)
        ELSE R(success_response("Task deleted successfully", NoData, 200),
               TaskModel_delete(st, task_id),
               <<"TaskModel.find_by_id", "TaskModel.delete">>)

\* routes/task_routes.py delete_task()
delete_task(current_user, task_id, st) ==
    LET task == TaskModel_find_by_id(st, task_id)
    IN  IF task = None
        THEN R(error_response("Task not found", 404), st, <<"TaskModel.find_by_id">>)
        ELSE IF NotOwnerNorAdmin(task, current_user)
        THEN R(error_response("You do not have permission to delete this task", 403),
               st, <<"TaskModel.find_by_id">>)
        ELSE R(success_response("Task deleted successfully", NoData, 200),
               TaskModel_delete(st, task_id),
               <<"TaskModel.find_by_id", "TaskModel.delete">>)

\* routes/task_routes.py admin_get_all_tasks()
admin_get_all_tasks(current_user, args, st) ==
    LET status_filter == dict_get(args, "status", Absent)
        user_id_filter == dict_get(args, "user_id", Absent)
    IN  IF user_id_filter.t = "str" /\ user_id_filter.v # <<>>
        THEN R(error_response("Failed to retrieve tasks", 500), st, <<>>)
        ELSE
        LET found == TaskModel_find_all(st, status_filter, user_id_filter,
                                        FindAllLimit, 0)
        IN  R(success_response("All tasks retrieved successfully",
                [tasks |-> [i \in DOMAIN found |-> TaskView(found[i])],
                 total |-> Len(found)], 200),
              st, <<"TaskModel.find_all">>)

\* routes/task_routes.py admin_delete_task()
admin_delete_task(current_user, task_id, st) ==
    LET task == TaskModel_find_by_id(st, task_id)
    IN  IF task = None
        THEN R(error_response("Task not found", 404), st, <<"TaskModel.find_by_id">>)
        ELSE R(success_response("Task deleted successfully by admin", NoData, 200),
               TaskModel_delete(st, task_id),
               <<"TaskModel.find_by_id", "TaskModel.delete">>)

(***************************************************************************)
(* The decorator stacks of the routes: @token_required alone, or           *)
(* @token_required above @admin_required.  steps lists the decorators      *)
(* that ran; current_user is the identity token_required bound, None when  *)
(* it bound none.                                                          *)
(***************************************************************************)
Gate(auth_header, t, admin_only) ==
    LET a == token_required(auth_header, t)
    IN  IF ~a.pass
        THEN [pass |-> FALSE, resp |-> a.resp, steps |-> <<"token_required">>,
              current_user |-> None]
        ELSE IF ~admin_only
        THEN [pass |-> TRUE, steps |-> <<"token_required">>,
              current_user |-> a.current_user]
        ELSE LET b == admin_required(a.current_user)
             IN  IF ~b.pass
                 THEN [pass |-> FALSE, resp |-> b.resp,
                       steps |-> <<"token_required", "admin_required">>,
                       current_user |-> a.current_user]
                 ELSE [pass |-> TRUE,
                       steps |-> <<"token_required", "admin_required">>,
                       current_user |-> a.current_user]

\* register and login carry no decorator
NoGate == [pass |-> TRUE, steps |-> <<>>, current_user |-> None]

(***************************************************************************)
(* State                                                                   *)
(***************************************************************************)
VARIABLES
    users,      \* the users table
    tasks,      \* the tasks table
    userSeq,    \* AUTO_INCREMENT of users
    taskSeq,    \* AUTO_INCREMENT of tasks
    now,        \* the server clock, in hours
    issued,     \* the tokens clients hold: for each, the token, the time
                \* login issued it and the user it was issued to
    req,        \* the request being answered, NoRequest between requests
    resp,       \* its response
    trace,      \* what ran for it: decorators and handler, the identity
                \* bound, the store calls made, whether g.db is set
    pool,       \* the number of connections free in db_pool
    inflight    \* the requests being served side by side, each with its
                \* position in the handler and its g.db (SpecConcurrent)

vars == <<users, tasks, userSeq, taskSeq, now, issued, req, resp, trace, pool,
          inflight>>

Store == [users |-> users, tasks |-> tasks, userSeq |-> userSeq, taskSeq |-> taskSeq]

NoRequest == [route |-> "none"]
NoResponse == [status |-> 0]
NoTrace == [steps |-> <<>>, current_user |-> None, queries |-> <<>>, db |-> FALSE]
NoJson == [t |-> "nojson"]
NoArgs == [t |-> "noargs"]

Request(route, auth, task_id, json, args) ==
    [route |-> route, auth |-> auth, task_id |-> task_id, json |-> json, args |-> args]

(***************************************************************************)
(* Inputs: what clients send                                               *)
(***************************************************************************)
E1 == <<"a","@","b",".","c","o">>
E2 == <<"z","@","b",".","c","o">>
GoodPassword == <<"P","a","s","s","w","0","r","d">>
WeakPassword == <<"w","e","a","k">>
COMPLETED == valid_statuses[3]

RegisterBodies ==
    {[email |-> JStr(e), password |-> JStr(GoodPassword),
      name |-> JStr(<<"A","l">>), role |-> r] :
        <<e, r>> \in {<<E1, Absent>>, <<<<" ">> \o E1, JStr(<<"r","o","o","t">>)>>,
                      <<E2, JStr(USER)>>, <<E2, JStr(ADMIN \o <<" ">>)>>}}
    \cup
    {[email |-> e, password |-> pw, name |-> n, role |-> Absent] :
        <<e, pw, n>> \in
          {<<JStr(<<"a","&","b">>), JStr(GoodPassword), JStr(<<"A","l">>)>>,
           <<JNull, JStr(GoodPassword), JStr(<<"A","l">>)>>,
           <<JStr(E1), JStr(WeakPassword), JStr(<<"A","l">>)>>,
           <<JStr(E1), JInt(12345678), JStr(<<"A","l">>)>>,
           <<JStr(E1), JStr(GoodPassword), JStr(<<" ">>)>>,
           <<Absent, Absent, Absent>>}}

LoginBodies ==
    {[email |-> JStr(e), password |-> JStr(pw)] :
        e \in {E1, E1 \o <<" ">>, E2}, pw \in {GoodPassword, WeakPassword}}
    \cup {[email |-> JStr(E1), password |-> Absent],
          [email |-> Absent, password |-> Absent]}

\* token strings a client can make up without the server's key
Garbage == Text(<<"x",".","y",".","z">>)
SelfSigned(t) ==
    jwt_encode([user_id |-> 1, role |-> ADMIN, iat |-> t,
                exp |-> t + JWT_EXPIRY_HOURS], "attacker-key")
\* an issued token whose payload was edited to claim the admin role
Tampered(token) == [token EXCEPT !.payload.role = ADMIN]

Header(parts) == [parts |-> parts]
Bearer == Text(<<"B","e","a","r","e","r">>)

\* headers built the documented way around a token a client got from login
SentHeaders == {Header(<<Bearer, g.token>>) : g \in issued}

\* the token issued last among those clients hold
Freshest ==
    (CHOOSE g \in issued : \A other \in issued : other.at <= g.at).token

\* every other header: absent, malformed, forged, or spelled differently
OtherHeaders ==
    {None, Header(<<>>), Header(<<Bearer>>),
     Header(<<Bearer, Garbage>>), Header(<<Bearer, SelfSigned(now)>>)}
    \cup IF issued = {} THEN {}
         ELSE {Header(<<Text(<<"b","E","A","R","E","R">>), Freshest>>),
               Header(<<Text(<<"B","a","s","i","c">>), Freshest>>),
               Header(<<Bearer, Freshest, Text(<<"x">>)>>),
               Header(<<Bearer, Tampered(Freshest)>>)}

Headers == SentHeaders \cup OtherHeaders

\* the calls of a route explored: every input in X under the documented
\* header, and the input x0 under every other header
Calls(X, x0) == (SentHeaders \X X) \cup (OtherHeaders \X {x0})

TaskIds == 1..(MaxTasks + 1)

TaskBody(title, description, status) ==
    [title |-> title, description |-> description, status |-> status]

TITLE_T == <<"T">>
TITLE_U == <<"U">>

CreateBodies ==
    {TaskBody(JStr(TITLE_T), Absent, Absent),
     TaskBody(JStr(<<" ">> \o TITLE_U), JStr(<<"d">>), JStr(<<" ">> \o COMPLETED)),
     TaskBody(JStr(TITLE_T), Absent, JStr(<<"b","o","g","u","s">>)),
     TaskBody(JStr(TITLE_T), Absent, JNull),
     TaskBody(JStr(TITLE_T), Absent, JInt(7)),
     TaskBody(Absent, Absent, JStr(COMPLETED)),
     TaskBody(JStr(Repeat("a", MaxTitleLen + 1)), Absent, Absent),
     TaskBody(Absent, Absent, Absent)}

UpdateBodies ==
    {TaskBody(Absent, Absent, JStr(COMPLETED)),
     TaskBody(JStr(TITLE_T), JStr(<<>>), JStr(PENDING \o <<" ">>)),
     TaskBody(JStr(TITLE_U), JStr(<<"d">>), JStr(<<"b","o","g","u","s">>)),
     TaskBody(Absent, Absent, JNull),
     TaskBody(JStr(<<" ">>), Absent, Absent),
     TaskBody(JStr(Repeat("a", MaxTitleLen + 1)), Absent, Absent),
     TaskBody(Absent, Absent, Absent)}

\* a body that changes every field of a task
FullUpdate == TaskBody(JStr(TITLE_U), JStr(<<"d">>), JStr(COMPLETED))

ListArgs(all, status, page, limit) ==
    [all |-> all, status |-> status, page |-> page, limit |-> limit]

GetTasksArgs ==
    {ListArgs(Absent, Absent, Absent, Absent),
     ListArgs(JStr(<<"T","r","u","e">>), Absent, Absent, Absent),
     ListArgs(Absent, JStr(COMPLETED), Absent, Absent),
     ListArgs(JStr(TRUE_TEXT), Absent, JInt(2), JInt(1)),
     ListArgs(Absent, Absent, JInt(0), JInt(MaxLimit + 1)),
     ListArgs(Absent, Absent, JStr(<<"x">>), Absent)}

AdminArgs(status, user_id) == [status |-> status, user_id |-> user_id]

AdminGetAllArgs ==
    {AdminArgs(Absent, Absent), AdminArgs(Absent, JInt(1)),
     AdminArgs(JStr(PENDING), Absent), AdminArgs(Absent, JStr(<<"x">>))}

(***************************************************************************)
(* Actions: one per route, each the whole request from the decorators to   *)
(* the response.  Requests are served one at a time.                       *)
(***************************************************************************)
Init ==
    /\ users = {}
    /\ tasks = {}
    /\ userSeq = 1
    /\ taskSeq = 1
    /\ now = 0
    /\ issued = {}
    /\ req = NoRequest
    /\ resp = NoResponse
    /\ trace = NoTrace
    /\ pool = PoolSize
    /\ inflight = EmptyBag

\* a decorator answered the request: the handler does not run
Reject(request, g) ==
    /\ req' = request
    /\ resp' = g.resp
    /\ trace' = [steps |-> g.steps, current_user |-> g.current_user,
                 queries |-> <<>>, db |-> FALSE]
    /\ UNCHANGED <<users, tasks, userSeq, taskSeq, now, issued, pool, inflight>>

\* the handler `name` ran with result r; its first store call took a
\* connection from the pool into g.db (get_db), the later ones reused it
Answer(request, g, name, r) ==
    /\ r.q # <<>> => pool > 0
    /\ req' = request
    /\ resp' = r.resp
    /\ trace' = [steps |-> Append(g.steps, name),
                 current_user |-> g.current_user, queries |-> r.q,
                 db |-> r.q # <<>>]
    /\ pool' = IF r.q # <<>> THEN pool - 1 ELSE pool
    /\ inflight' = inflight
    /\ users' = r.st.users
    /\ tasks' = r.st.tasks
    /\ userSeq' = r.st.userSeq
    /\ taskSeq' = r.st.taskSeq
    /\ now' = now

\* Answer, while the tables grow within the bounds explored
Serve(request, g, name, r) ==
    /\ r.st.userSeq > userSeq => r.st.userSeq <= MaxUsers + 1
    /\ r.st.taskSeq > taskSeq => r.st.taskSeq <= MaxTasks + 1
    /\ Answer(request, g, name, r)

\* POST /api/v1/auth/register
Register ==
    /\ req = NoRequest
    /\ \E data \in RegisterBodies : \E salt \in Salts :
        /\ Serve(Request("register", None, 0, data, NoArgs), NoGate, "register",
                 register(data, Store, salt))
        /\ issued' = issued

\* POST /api/v1/auth/login; the client keeps the token it is sent
Login ==
    /\ req = NoRequest
    /\ \E data \in LoginBodies :
        LET r == login(data, Store, now)
        IN  /\ Serve(Request("login", None, 0, data, NoArgs), NoGate, "login", r)
            /\ issued' = IF r.resp.status = 200
                         THEN issued \cup {[token |-> r.resp.body.data.token,
                                            user_id |-> r.resp.body.data.user.id,
                                            role |-> r.resp.body.data.user.role,
                                            at |-> now]}
                         ELSE issued
            /\ issued' # issued => Cardinality(issued') <= MaxTokens

\* GET /api/v1/auth/me
GetCurrentUser ==
    /\ req = NoRequest
    /\ \E h \in Headers :
        LET request == Request("get_current_user", h, 0, NoJson, NoArgs)
            g == Gate(h, now, FALSE)
        IN  /\ IF g.pass
               THEN Serve(request, g, "get_current_user",
                          get_current_user(g.current_user, Store))
               ELSE Reject(request, g)
            /\ issued' = issued

\* GET /api/v1/auth/users
GetAllUsers ==
    /\ req = NoRequest
    /\ \E h \in Headers :
        LET request == Request("get_all_users", h, 0, NoJson, NoArgs)
            g == Gate(h, now, TRUE)
        IN  /\ IF g.pass
               THEN Serve(request, g, "get_all_users",
                          get_all_users(g.current_user, Store))
               ELSE Reject(request, g)
            /\ issued' = issued

\* POST /api/v1/auth/logout
Logout ==
    /\ req = NoRequest
    /\ \E h \in Headers :
        LET request == Request("logout", h, 0, NoJson, NoArgs)
            g == Gate(h, now, FALSE)
        IN  /\ IF g.pass
               THEN Serve(request, g, "logout", logout(g.current_user, Store))
               ELSE Reject(request, g)
            /\ issued' = issued

\* POST /api/v1/tasks
CreateTask ==
    /\ req = NoRequest
    /\ \E c \in Calls(CreateBodies, TaskBody(JStr(TITLE_T), Absent, Absent)) :
        LET h == c[1]
            data == c[2]
            request == Request("create_task", h, 0, data, NoArgs)
            g == Gate(h, now, FALSE)
        IN  /\ IF g.pass
               THEN Serve(request, g, "create_task",
                          create_task(g.current_user, data, Store))
               ELSE Reject(request, g)
            /\ issued' = issued

\* GET /api/v1/tasks
GetTasks ==
    /\ req = NoRequest
    /\ \E c \in Calls(GetTasksArgs, ListArgs(Absent, Absent, Absent, Absent)) :
        LET h == c[1]
            args == c[2]
            request == Request("get_tasks", h, 0, NoJson, args)
            g == Gate(h, now, FALSE)
        IN  /\ IF g.pass
               THEN Serve(request, g, "get_tasks",
                          get_tasks(g.current_user, args, Store))
               ELSE Reject(request, g)
            /\ issued' = issued

\* GET /api/v1/tasks/<task_id>
GetTask ==
    /\ req = NoRequest
    /\ \E c \in Calls(TaskIds, 1) :
        LET h == c[1]
            task_id == c[2]
            request == Request("get_task", h, task_id, NoJson, NoArgs)
            g == Gate(h, now, FALSE)
        IN  /\ IF g.pass
               THEN Serve(request, g, "get_task",
                          get_task(g.current_user, task_id, Store))
               ELSE Reject(request, g)
            /\ issued' = issued

\* PUT /api/v1/tasks/<task_id>
UpdateTask ==
    /\ req = NoRequest
    /\ \E c \in Calls(TaskIds \X (UpdateBodies \cup {FullUpdate}), <<1, FullUpdate>>) :
        LET h == c[1]
            task_id == c[2][1]
            data == c[2][2]
            request == Request("update_task", h, task_id, data, NoArgs)
            g == Gate(h, now, FALSE)
        IN  /\ IF g.pass
               THEN Serve(request, g, "update_task",
                          update_task(g.current_user, task_id, data, Store))
               ELSE Reject(request, g)
            /\ issued' = issued

\* DELETE /api/v1/tasks/<task_id>
DeleteTask ==
    /\ req = NoRequest
    /\ \E c \in Calls(TaskIds, 1) :
        LET h == c[1]
            task_id == c[2]
            request == Request("delete_task", h, task_id, NoJson, NoArgs)
            g == Gate(h, now, FALSE)
        IN  /\ IF g.pass
               THEN Serve(request, g, "delete_task",
                          delete_task(g.current_user, task_id, Store))
               ELSE Reject(request, g)
            /\ issued' = issued

\* GET /api/v1/tasks/admin/all
AdminGetAllTasks ==
    /\ req = NoRequest
    /\ \E c \in Calls(AdminGetAllArgs, AdminArgs(Absent, Absent)) :
        LET h == c[1]
            args == c[2]
            request == Request("admin_get_all_tasks", h, 0, NoJson, args)
            g == Gate(h, now, TRUE)
        IN  /\ IF g.pass
               THEN Serve(request, g, "admin_get_all_tasks",
                          admin_get_all_tasks(g.current_user, args, Store))
               ELSE Reject(request, g)
            /\ issued' = issued

\* DELETE /api/v1/tasks/admin/<task_id>
AdminDeleteTask ==
    /\ req = NoRequest
    /\ \E c \in Calls(TaskIds, 1) :
        LET h == c[1]
            task_id == c[2]
            request == Request("admin_delete_task", h, task_id, NoJson, NoArgs)
            g == Gate(h, now, TRUE)
        IN  /\ IF g.pass
               THEN Serve(request, g, "admin_delete_task",
                          admin_delete_task(g.current_user, task_id, Store))
               ELSE Reject(request, g)
            /\ issued' = issued

\* g.pop('db') without the close
close_db_Dropped(db, free) == free

\* close_db: g.db, if set, goes back to the pool; free is the number of
\* connections free before, the result the number free after.  A pooled
\* connection's close() hands it back whether or not its session reset
\* succeeds, and discards a transaction left open on it.
close_db(db, free) == IF db THEN free + 1 ELSE free

\* the response is sent and the request's context is discarded; close_db
\* returns g.db, if set, to the pool
Teardown ==
    /\ req # NoRequest
    /\ req' = NoRequest
    /\ resp' = NoResponse
    /\ trace' = NoTrace
    /\ pool' = close_db(trace.db, pool)
    /\ UNCHANGED <<users, tasks, userSeq, taskSeq, now, issued, inflight>>

\* a client discards a token it holds
Forget ==
    /\ req = NoRequest
    /\ \E g \in issued : issued' = issued \ {g}
    /\ UNCHANGED <<users, tasks, userSeq, taskSeq, now, req, resp, trace, pool,
                   inflight>>

\* time passes between requests
Tick ==
    /\ req = NoRequest
    /\ now + ClockStep <= MaxTime
    /\ now' = now + ClockStep
    /\ UNCHANGED <<users, tasks, userSeq, taskSeq, issued, req, resp, trace, pool,
                   inflight>>

Next ==
    \/ Register
    \/ Login
    \/ GetCurrentUser
    \/ GetAllUsers
    \/ Logout
    \/ CreateTask
    \/ GetTasks
    \/ GetTask
    \/ UpdateTask
    \/ DeleteTask
    \/ AdminGetAllTasks
    \/ AdminDeleteTask
    \/ Teardown
    \/ Forget
    \/ Tick

Spec == Init /\ [][Next]_vars

(***************************************************************************)
(* Requests side by side.  SpecConcurrent serves up to MaxRequests         *)
(* register requests at once, each in its own thread with its own g and,   *)
(* from its first execute_query on, its own connection.  A step is one     *)
(* statement or commit sent over a connection, which the database may      *)
(* fail; what a connection has written and not committed is its pending    *)
(* row, which other connections do not see.                                *)
(***************************************************************************)
EmptyStore == [users |-> {}, tasks |-> {}, userSeq |-> 1, taskSeq |-> 1]

\* register, lines 41-62: the fields read from the body
register_fields(data) ==
    LET role0 == sanitize_input(dict_get(data, "role", JStr(USER)))
    IN  [email |-> sanitize_input(dict_get(data, "email", JStr(<<>>))),
         password |-> dict_get(data, "password", JStr(<<>>)),
         name |-> sanitize_input(dict_get(data, "name", JStr(<<>>))),
         role |-> IF role0 \notin {USER, ADMIN} THEN USER ELSE role0]

\* register, lines 34-58: the response of the checks made before the store
\* is touched, None when the body passes them
register_checks(data) ==
    LET r == register(data, EmptyStore, "salt1")
    IN  IF r.q = <<>> THEN r.resp ELSE None

\* a request as it enters its handler: pc is the call it makes next, db
\* whether g.db is set, acquired the connections it has taken from the
\* pool, pending the row its connection has inserted and not committed,
\* failed the store call that raised, status the response's
Context(data) ==
    [pc |-> "find_by_email", data |-> data, db |-> FALSE, acquired |-> 0,
     pending |-> None, failed |-> "", raised |-> "", status |-> 0]

\* the requests in flight, and one of them replaced by its next state
Inflight == BagToSet(inflight)
Step(c, d) == inflight' = (inflight (-) SetToBag({c})) (+) SetToBag({d})

\* get_db(): g.db, taken from the pool when g has none; the pool raises
\* when it has no connection free
get_db(c, free) ==
    IF c.db THEN [ok |-> TRUE, c |-> c, pool |-> free]
    ELSE IF free = 0 THEN [ok |-> FALSE]
    ELSE [ok |-> TRUE, c |-> [c EXCEPT !.db = TRUE, !.acquired = @ + 1],
          pool |-> free - 1]

\* "except Exception" with the rollback left out
execute_query_except_NoRollback(c, commit, call, error) ==
    [c EXCEPT !.failed = call, !.raised = error]

\* execute_query, lines 147-151: db.rollback() when commit is set, and the
\* exception raised again
execute_query_except(c, commit, call, error) ==
    [c EXCEPT !.pending = IF commit THEN None ELSE @,
              !.failed = call, !.raised = error]

\* register, lines 88-90: "except Exception" answers 500
register_except(c) == [c EXCEPT !.pc = "close_db", !.status = 500]

\* no unique index on users.email
email_unique_violated_Never(rows, email) == FALSE

\* the unique index on users.email: an INSERT of an email a stored row has
\* is refused with a duplicate-key error
email_unique_violated(rows, email) == \E u \in rows : u.email = email

\* the unique index on users.email: an INSERT of an email that another
\* connection has inserted and not yet committed waits for that connection
email_unique_waits(c, email) ==
    \E d \in Inflight : d # c /\ d.pending # None /\ d.pending.email = email

\* the register bodies sent side by side: two spellings of one email, a
\* second email, and a body the checks refuse
ConcurrentBodies ==
    {d \in RegisterBodies :
        \/ d.password = JStr(GoodPassword) /\ d.name = JStr(<<"A","l">>)
           /\ d.email \in {JStr(E1), JStr(<<" ">> \o E1), JStr(E2)}
           /\ d.role \in {Absent, JStr(<<"r","o","o","t">>), JStr(USER)}
        \/ d.email = Absent}

Untouched == <<tasks, taskSeq, now, issued, req, resp, trace>>

\* a register request arrives and passes or fails the checks on its body
Arrive ==
    /\ BagCardinality(inflight) < MaxRequests
    /\ \E data \in ConcurrentBodies :
        LET early == register_checks(data)
        IN  inflight' = inflight (+) SetToBag({
                IF early # None
                THEN [Context(data) EXCEPT !.pc = "close_db",
                                           !.status = early.status]
                ELSE Context(data)})
    /\ UNCHANGED <<users, userSeq, pool>>
    /\ UNCHANGED Untouched

\* register, line 64: UserModel.find_by_email, one execute_query(fetch_one)
FindByEmail ==
    /\ \E c \in Inflight :
        /\ c.pc = "find_by_email"
        /\ LET a == get_db(c, pool)
               f == register_fields(c.data)
           IN  IF ~a.ok
               THEN /\ Step(c, register_except(
                            [c EXCEPT !.failed = "find_by_email",
                                      !.raised = "PoolError"]))
                    /\ pool' = pool
               ELSE /\ pool' = a.pool
                    /\ \E ok \in BOOLEAN :
                        Step(c, IF ~ok
                                THEN register_except(execute_query_except(
                                         a.c, FALSE, "find_by_email", "DatabaseError"))
                                ELSE IF UserModel_find_by_email(Store, f.email) # None
                                THEN [a.c EXCEPT !.pc = "close_db", !.status = 409]
                                ELSE [a.c EXCEPT !.pc = "create"])
    /\ UNCHANGED <<users, userSeq>>
    /\ UNCHANGED Untouched

\* register, lines 70-78: hash_password and UserModel.create, up to the
\* INSERT statement of its execute_query(commit=True)
Create ==
    /\ \E c \in Inflight :
        /\ c.pc = "create"
        /\ LET a == get_db(c, pool)
               f == register_fields(c.data)
               new == UserModel_create(Store, f.email,
                                       hash_password(f.password.v, "salt1"),
                                       f.name, f.role)
               row == CHOOSE u \in new.users : u.id = userSeq
           IN  IF ~a.ok
               THEN /\ Step(c, register_except(
                            [c EXCEPT !.failed = "create", !.raised = "PoolError"]))
                    /\ UNCHANGED <<pool, userSeq>>
               ELSE /\ pool' = a.pool
                    /\ \/ /\ Step(c, register_except(execute_query_except(
                                        a.c, TRUE, "create", "DatabaseError")))
                          /\ userSeq' = userSeq
                       \/ /\ email_unique_violated(users, f.email)
                          /\ Step(c, register_except(execute_query_except(
                                        a.c, TRUE, "create", "IntegrityError")))
                          /\ userSeq' = userSeq
                       \/ /\ ~email_unique_violated(users, f.email)
                          /\ ~email_unique_waits(c, f.email)
                          /\ userSeq <= MaxUsers
                          /\ Step(c, [a.c EXCEPT !.pending = row, !.pc = "commit"])
                          /\ userSeq' = new.userSeq
    /\ users' = users
    /\ UNCHANGED Untouched

\* execute_query, lines 141-143 of UserModel.create's call: db.commit(),
\* then register answers 201; or the commit fails
Commit ==
    /\ \E c \in Inflight :
        /\ c.pc = "commit"
        /\ \/ /\ users' = users \cup {c.pending}
              /\ Step(c, [c EXCEPT !.pending = None, !.pc = "close_db",
                                   !.status = 201])
           \/ /\ users' = users
              /\ Step(c, register_except(execute_query_except(
                            c, TRUE, "create", "DatabaseError")))
    /\ UNCHANGED <<userSeq, pool>>
    /\ UNCHANGED Untouched

\* the response is sent; teardown_appcontext runs close_db
CloseDb ==
    /\ \E c \in Inflight :
        /\ c.pc = "close_db"
        /\ pool' = close_db(c.db, pool)
        /\ inflight' = inflight (-) SetToBag({c})
    /\ UNCHANGED <<users, userSeq>>
    /\ UNCHANGED Untouched

NextConcurrent ==
    \/ Arrive
    \/ FindByEmail
    \/ Create
    \/ Commit
    \/ CloseDb

SpecConcurrent == Init /\ [][NextConcurrent]_vars

(***************************************************************************)
(* Properties.  A request is one step from NoRequest to the request; the   *)
(* unprimed store is the store the request found, the primed one the store *)
(* it left.  What a property says about the caller is read from the        *)
(* request's own Authorization header with the library's jwt_decode.       *)
(***************************************************************************)

\* the request carries "Bearer <token>" with a token that verifies at time t
Verified(request, t) ==
    /\ request.auth # None
    /\ Len(request.auth.parts) = 2
    /\ IsBearer(request.auth.parts[1])
    /\ jwt_decode(request.auth.parts[2], JWT_SECRET_KEY, t).raised = ""

\* the claims of the token of a Verified request
Claims(request, t) == jwt_decode(request.auth.parts[2], JWT_SECRET_KEY, t).payload

\* this step answers a request to `route` whose token verifies
Authenticated(route) ==
    req = NoRequest /\ req'.route = route /\ Verified(req', now)

\* C1: a PUT /tasks/<id> by an authenticated caller whose token user_id
\* differs from the task's user_id is answered 403 and leaves the task
\* unchanged, whatever the caller's role, admin included.
C1_NonOwnerPutForbidden ==
    [][Authenticated("update_task") =>
         \A k \in tasks :
            (k.id = req'.task_id /\ k.user_id # Claims(req', now).user_id)
               => resp'.status = 403 /\ tasks' = tasks]_vars

\* an admin was refused the update of another user's task
C1_AdminRefused ==
    /\ req.route = "update_task"
    /\ resp.status = 403
    /\ Verified(req, now)
    /\ Claims(req, now).role = ADMIN
    /\ \E k \in tasks : k.id = req.task_id /\ k.user_id # Claims(req, now).user_id

\* C2: a DELETE /tasks/<id> on an existing task is answered 200, and the
\* task is gone from the store, when the caller is the task's owner or has
\* role admin; any other authenticated caller is answered 403 and the task
\* is kept.
C2_DeleteOwnerOrAdmin ==
    [][Authenticated("delete_task") =>
         \A k \in tasks :
            k.id = req'.task_id =>
               IF k.user_id = Claims(req', now).user_id
                  \/ Claims(req', now).role = ADMIN
               THEN resp'.status = 200 /\ \A j \in tasks' : j.id # k.id
               ELSE resp'.status = 403 /\ k \in tasks' /\ tasks' = tasks]_vars

\* a caller who held no task of their own was refused the deletion of an
\* existing task
C2_StrangerRefused ==
    /\ req.route = "delete_task"
    /\ resp.status = 403
    /\ Verified(req, now)
    /\ Claims(req, now).role # ADMIN
    /\ \E k \in tasks : k.id = req.task_id /\ k.user_id # Claims(req, now).user_id

\* C3: a GET /tasks/<id> by an authenticated caller is answered 404 when no
\* task has the id, 200 with the task when the caller owns it or is admin,
\* and 403 otherwise; the 403 and 404 bodies carry no task field.
C3_GetTaskVisibility ==
    [][Authenticated("get_task") =>
         LET found == {k \in tasks : k.id = req'.task_id}
         IN  /\ found = {} => resp'.status = 404
             /\ \A k \in found :
                   IF k.user_id = Claims(req', now).user_id
                      \/ Claims(req', now).role = ADMIN
                   THEN resp'.status = 200 /\ resp'.body.data = TaskView(k)
                   ELSE resp'.status = 403
             /\ resp'.status \in {403, 404}
                   => DOMAIN resp'.body = {"success", "error"}]_vars

\* an owner without the admin role read their own task
C3_OwnerRead ==
    /\ req.route = "get_task"
    /\ resp.status = 200
    /\ Verified(req, now)
    /\ Claims(req, now).role # ADMIN
    /\ \E k \in tasks : k.id = req.task_id /\ k.user_id = Claims(req, now).user_id

\* the routes decorated with @token_required
ProtectedRoutes ==
    {"get_current_user", "get_all_users", "logout", "create_task", "get_tasks",
     "get_task", "update_task", "delete_task", "admin_get_all_tasks",
     "admin_delete_task"}

\* C4: on a protected route, a request whose Authorization header is
\* absent, has not exactly two parts, has a scheme other than bearer
\* (case-insensitive), or carries a token that fails verification is
\* answered 401; the handler is never invoked and no store read or write
\* happens.
C4_UnauthenticatedRefused ==
    [][(req = NoRequest /\ req'.route \in ProtectedRoutes /\ ~Verified(req', now))
         => /\ resp'.status = 401
            /\ req'.route \notin Range(trace'.steps)
            /\ trace'.queries = <<>>
            /\ <<users, tasks, userSeq, taskSeq>>' = <<users, tasks, userSeq, taskSeq>>]_vars

\* a token that verifies, sent under a scheme other than bearer, was refused
C4_WrongSchemeRefused ==
    /\ req.route \in ProtectedRoutes
    /\ resp.status = 401
    /\ req.auth # None
    /\ Len(req.auth.parts) = 2
    /\ ~IsBearer(req.auth.parts[1])
    /\ jwt_decode(req.auth.parts[2], JWT_SECRET_KEY, now).raised = ""

\* C5: a role check runs only after token_required has verified the token
\* of the same request and bound the identity from it: the identity the
\* check sees is the user_id and role of that token, and the check lets the
\* handler run exactly when that role is admin.
C5_RoleCheckAfterVerification ==
    \A j \in DOMAIN trace.steps :
        trace.steps[j] = "admin_required" =>
            /\ \E i \in 1..(j - 1) : trace.steps[i] = "token_required"
            /\ Verified(req, now)
            /\ trace.current_user = [user_id |-> Claims(req, now).user_id,
                                     role |-> Claims(req, now).role]
            /\ (Claims(req, now).role = ADMIN) <=> (req.route \in Range(trace.steps))

\* the role check ran for a verified token of a plain user and refused it
C5_RoleCheckRan ==
    /\ trace.steps = <<"token_required", "admin_required">>
    /\ resp.status = 403
    /\ Verified(req, now)

\* the routes decorated with @admin_required
AdminRoutes == {"get_all_users", "admin_get_all_tasks", "admin_delete_task"}

\* C6: GET /auth/users, GET /tasks/admin/all and DELETE /tasks/admin/<id>
\* answer a valid token whose role is not admin with 403, return no data
\* and delete no task; with role admin the request proceeds: the handler
\* runs, the user list is returned in full, an existing task is deleted.
C6_AdminOnlyRoutes ==
    [][(req = NoRequest /\ req'.route \in AdminRoutes /\ Verified(req', now))
         => IF Claims(req', now).role # ADMIN
            THEN /\ resp'.status = 403
                 /\ DOMAIN resp'.body = {"success", "error"}
                 /\ trace'.queries = <<>>
                 /\ tasks' = tasks /\ users' = users
            ELSE /\ req'.route \in Range(trace'.steps)
                 /\ resp'.status # 403
                 /\ req'.route = "get_all_users"
                       => /\ resp'.status = 200
                          /\ resp'.body.data.total = Cardinality(users)
                 /\ (req'.route = "admin_delete_task"
                     /\ \E k \in tasks : k.id = req'.task_id)
                       => /\ resp'.status = 200
                          /\ \A k \in tasks' : k.id # req'.task_id]_vars

\* a plain user was refused the admin deletion of an existing task
C6_UserRefused ==
    /\ req.route = "admin_delete_task"
    /\ resp.status = 403
    /\ Verified(req, now)
    /\ Claims(req, now).role # ADMIN
    /\ \E k \in tasks : k.id = req.task_id

\* C7: for every user_id and role, a token issued for them verifies before
\* its expiry and yields that user_id and role; after its expiry (issue
\* time plus JWT_EXPIRY_HOURS) verifying it yields no claim.  The tokens are
\* those login issued, each with the user and time it was issued for.
C7_TokenRoundTrip ==
    \A g \in issued :
        LET payload == decode_token(g.token, now).payload
        IN  /\ now < g.at + JWT_EXPIRY_HOURS
                 => /\ payload # None
                    /\ payload.user_id = g.user_id
                    /\ payload.role = g.role
            /\ now > g.at + JWT_EXPIRY_HOURS => payload = None

\* a client holds a token past its expiry
C7_ExpiredHeld ==
    \E g \in issued :
        /\ now > g.at + JWT_EXPIRY_HOURS
        /\ jwt_decode(g.token, JWT_SECRET_KEY, g.at).raised = ""

\* the tokens of issued that have expired
ExpiredTokens == {g.token : g \in {h \in issued : now > h.at + JWT_EXPIRY_HOURS}}

\* what decode_token makes of tokens that are malformed or wrongly signed
Rejected(token) ==
    {decode_token(Garbage, now), decode_token(SelfSigned(now), now),
     decode_token([token EXCEPT !.sig.key = "attacker-key"], now)}

\* C8 as stated: decode_token returns for an expired token an outcome
\* distinct from the one it returns for a malformed or wrongly signed token.
C8_ExpiredOutcomeDistinct ==
    \A token \in ExpiredTokens :
        \A bad \in Rejected(token) :
            decode_token(token, now).payload # bad.payload

\* C8, amended: decode_token returns None for an expired token as it does
\* for a malformed or wrongly signed one, and token_required answers both
\* with the same 401; the two differ only in the warning decode_token logs,
\* "Token expired" against "Invalid token".
C8_ExpiredOnlyLoggedApart ==
    \A token \in ExpiredTokens :
        /\ decode_token(token, now).payload = None
        /\ decode_token(token, now).log = "Token expired"
        /\ \A bad \in Rejected(token) :
              bad.payload = None /\ bad.log = "Invalid token"
        /\ token_required(Header(<<Bearer, token>>), now)
              = token_required(Header(<<Bearer, Garbage>>), now)

\* a request carrying an expired token was refused
C8_ExpiredRefused ==
    /\ req.route \in ProtectedRoutes
    /\ resp.status = 401
    /\ \E token \in ExpiredTokens : req.auth = Header(<<Bearer, token>>)

\* the body gives the email and the password of the user row u
SameCredentials(body, u) ==
    /\ body.email.t = "str" /\ sanitize_input(body.email) = u.email
    /\ body.password.t = "str"
    /\ u.password_hash = bcrypt_hashpw(body.password.v, u.password_hash.salt)

\* C9: a successful register followed by a login with the same email and
\* password returns 200 with a token that decodes to the user_id register
\* returned and the role stored for the user.  In steps: a 201 register
\* adds one user row with the returned id and the body's credentials; user
\* rows stay as they are; a login with the credentials of a row is answered
\* 200 with a token that verifies and carries the row's id and role.
C9_RegisterThenLogin ==
    [][/\ (req = NoRequest /\ req'.route = "register" /\ resp'.status = 201)
            => \E u \in users' :
                  /\ users' = users \cup {u} /\ u \notin users
                  /\ u.id = resp'.body.data.user_id
                  /\ SameCredentials(req'.json, u)
       /\ users \subseteq users'
       /\ (req = NoRequest /\ req'.route = "login")
            => \A u \in users :
                  SameCredentials(req'.json, u)
                     => /\ resp'.status = 200
                        /\ LET d == jwt_decode(resp'.body.data.token,
                                               JWT_SECRET_KEY, now)
                           IN  /\ d.raised = ""
                               /\ d.payload.user_id = u.id
                               /\ d.payload.role = u.role]_vars

\* a registered admin logged in and was sent a token
C9_AdminLoggedIn ==
    /\ req.route = "login"
    /\ resp.status = 200
    /\ \E u \in users : SameCredentials(req.json, u) /\ u.role = ADMIN

\* the body names a status that, read as the handlers read it (trimmed and
\* escaped by sanitize_input), is none of the four
StatusOutside(body) ==
    body.status # Absent /\ sanitize_input(body.status) \notin Range(valid_statuses)

PagingUsers ==
    UserModel_create(
        UserModel_create([users |-> {}, tasks |-> {}, userSeq |-> 1, taskSeq |-> 1],
                         E1, hash_password(GoodPassword, "salt1"), <<"A","l">>, USER),
        E2, hash_password(GoodPassword, "salt1"), <<"A","l">>, ADMIN)

\* the tasks table after n + others creations
PagingTasks(n, others) ==
    {[id |-> i, title |-> TITLE_T, description |-> <<>>, status |-> PENDING,
      user_id |-> IF others = 2 /\ i \in {1, n + 2} THEN 2 ELSE 1] :
        i \in 1..(n + others)}

PagingLimits == {1, 7, DefaultLimit, MaxLimit}

InitPaging ==
    /\ users = PagingUsers.users
    /\ userSeq = PagingUsers.userSeq
    /\ \E n \in 0..MaxListed : \E others \in {0, 2} :
          /\ tasks = PagingTasks(n, others)
          /\ taskSeq = n + others + 1
    /\ now = 0
    /\ issued = {[token |-> generate_token(1, USER, 0), user_id |-> 1,
                  role |-> USER, at |-> 0]}
    /\ req = NoRequest
    /\ resp = NoResponse
    /\ trace = NoTrace
    /\ pool = PoolSize
    /\ inflight = EmptyBag

\* GET /api/v1/tasks?page=..&limit=..
GetTasksPage ==
    /\ req = NoRequest
    /\ \E h \in SentHeaders : \E page \in 1..MaxPage : \E limit \in PagingLimits :
        LET args == ListArgs(Absent, Absent, JInt(page), JInt(limit))
            request == Request("get_tasks", h, 0, NoJson, args)
            g == Gate(h, now, FALSE)
        IN  /\ g.pass
            /\ Answer(request, g, "get_tasks",
                      get_tasks(g.current_user, args, Store))
            /\ issued' = issued

NextPaging ==
    \/ GetTasksPage
    \/ Teardown

SpecPaging == InitPaging /\ [][NextPaging]_vars

\* ceil(n / d)
CeilDiv(n, d) == CHOOSE c \in 0..n : c * d >= n /\ (c = 0 \/ (c - 1) * d < n)

\* min(limit, max(0, n - (page - 1) * limit))
OnPage(n, page, limit) ==
    LET rest == IF n - (page - 1) * limit > 0 THEN n - (page - 1) * limit ELSE 0
    IN  IF limit < rest THEN limit ELSE rest

\* C11: GET /tasks by a user who owns N tasks, with 1 <= limit <= 100 and
\* page >= 1 and no other filter, is answered with pagination.pages =
\* ceil(N / limit) and min(limit, max(0, N - (page - 1) * limit)) tasks; 25
\* tasks, limit 10, page 3 give 5 tasks and 3 pages.
C11_Pagination ==
    [][(/\ Authenticated("get_tasks")
        /\ req'.args.all = Absent /\ req'.args.status = Absent
        /\ req'.args.page.t = "int" /\ req'.args.page.v >= 1
        /\ req'.args.limit.t = "int" /\ req'.args.limit.v \in 1..MaxLimit)
         => LET N == Cardinality({k \in tasks :
                                    k.user_id = Claims(req', now).user_id})
                page == req'.args.page.v
                limit == req'.args.limit.v
            IN  /\ resp'.status = 200
                /\ resp'.body.data.pagination.pages = CeilDiv(N, limit)
                /\ Len(resp'.body.data.tasks) = OnPage(N, page, limit)
                /\ (N = 25 /\ limit = 10 /\ page = 3)
                      => /\ Len(resp'.body.data.tasks) = 5
                         /\ resp'.body.data.pagination.pages = 3]_vars

\* the third page of ten of a user's 25 tasks, other users' tasks around
C11_ThirdPageOf25 ==
    /\ req.route = "get_tasks"
    /\ resp.status = 200
    /\ req.args.page = JInt(3) /\ req.args.limit = JInt(10)
    /\ Cardinality({k \in tasks : k.user_id = 1}) = 25
    /\ Cardinality(tasks) = 27
    /\ Len(resp.body.data.tasks) = 5

\* the body names the email of a stored user
EmailTaken(body) ==
    body.email.t = "str" /\ \E u \in users : u.email = sanitize_input(body.email)

\* the name and the password of the body pass register's checks
NameAndPasswordPass(body) ==
    /\ body.name # Absent /\ sanitize_input(body.name) # <<>>
    /\ body.password.t = "str" /\ validate_password(body.password.v)[1]

\* C12: POST /auth/register with an email that already belongs to a stored
\* user leaves the users table unchanged, no row added and none modified,
\* and is answered 409 (when name and password pass their checks; else the
\* earlier 400, or 500 for a password that is no string).
C12_DuplicateEmailConflict ==
    [][(req = NoRequest /\ req'.route = "register" /\ EmailTaken(req'.json))
         => /\ users' = users /\ userSeq' = userSeq
            /\ resp'.status \in {400, 409, 500}
            /\ NameAndPasswordPass(req'.json) => resp'.status = 409]_vars

\* a registration that named a stored user's email, spelled with a
\* leading blank, was answered 409
C12_Conflict ==
    /\ req.route = "register"
    /\ resp.status = 409
    /\ EmailTaken(req.json)
    /\ req.json.email.v # sanitize_input(req.json.email)

\* C13: no two stored users have the same email, also when register
\* requests for one email run side by side and interleave between the
\* lookup (find_by_email) and the insert (UserModel.create).
C13_EmailUnique ==
    \A u \in users : \A v \in users : u.email = v.email => u = v

\* two requests for one email both passed the lookup; one was committed and
\* the other's insert was refused as a duplicate
C13_RaceLost ==
    \E c \in Inflight :
        /\ c.raised = "IntegrityError"
        /\ c.status = 500
        /\ \E u \in users : u.email = register_fields(c.data).email

\* the requests in flight that hold a connection
Holding == BagCardinality([c \in {d \in Inflight : d.db} |-> inflight[c]])

\* C14: a request that uses the store takes exactly one connection from
\* the pool, at its first execute_query, and its later calls reuse it; the
\* connection is back in the pool when the request has ended, whichever way
\* its handler ended (a response, a failed query, an exception); when no
\* request is in flight no connection is checked out.
C14_OneConnectionPerRequest ==
    /\ \A c \in Inflight :
          /\ c.acquired <= 1
          /\ c.db <=> c.acquired = 1
          /\ (\/ c.pc \in {"create", "commit"}
              \/ c.status \in {201, 409}
              \/ c.raised \in {"DatabaseError", "IntegrityError"}) => c.db
          /\ c.raised = "PoolError" => ~c.db
    /\ pool + Holding = PoolSize
    /\ inflight = EmptyBag => pool = PoolSize

\* a request whose second store call failed is about to end, holding the
\* one connection it took, while another request found the pool empty
C14_FailedQueryHolds ==
    /\ \E c \in Inflight :
          c.pc = "close_db" /\ c.failed = "create" /\ c.db /\ c.acquired = 1
    /\ \E c \in Inflight : c.raised = "PoolError"

\* C15: when execute_query(commit=True) fails, in the statement or in the
\* commit, the connection's work is rolled back before the exception
\* reaches the caller, and the stored rows are as before the call: a step
\* in which a call fails changes no row, a failed call leaves nothing
\* pending on its connection, and rows only ever appear by a commit that
\* succeeded.
C15_RollbackOnFailure ==
    [][/\ \A c \in Inflight' :
             c.failed = "create" => c.pending = None /\ c.status = 500
       /\ (\E c \in Inflight' :
             c.failed # "" /\ CopiesIn(c, inflight') > CopiesIn(c, inflight))
            => users' = users
       /\ users \subseteq users'
       /\ users' \subseteq users \cup {c.pending : c \in {d \in Inflight : d.pc = "commit"}}
       /\ \A c \in Inflight : \A u \in users' \ users :
             (c.pc = "commit" /\ c.pending = u)
                => \E d \in Inflight' : d.data = c.data /\ d.status = 201]_vars

\* a commit failed after its INSERT had taken an id: the row is neither
\* stored nor pending
C15_CommitFailed ==
    /\ \E c \in Inflight :
          c.failed = "create" /\ c.raised = "DatabaseError" /\ c.pending = None
    /\ \A c \in Inflight : c.pending = None
    /\ userSeq > 1 + Cardinality(users)
    /\ userSeq = 2

(***************************************************************************)
(* Several tasks.  SpecTasks starts after a plain user and an admin have   *)
(* registered and logged in; both hold their tokens and create, read,      *)
(* change and delete up to MaxOwned tasks between them.                    *)
(***************************************************************************)
InitTasks ==
    /\ users = PagingUsers.users
    /\ userSeq = PagingUsers.userSeq
    /\ tasks = {}
    /\ taskSeq = 1
    /\ now = 0
    /\ issued = {[token |-> generate_token(u.id, u.role, 0), user_id |-> u.id,
                  role |-> u.role, at |-> 0] : u \in PagingUsers.users}
    /\ req = NoRequest
    /\ resp = NoResponse
    /\ trace = NoTrace
    /\ pool = PoolSize
    /\ inflight = EmptyBag

\* POST /api/v1/tasks, up to MaxOwned tasks
CreateTaskAmong ==
    /\ req = NoRequest
    /\ taskSeq <= MaxOwned
    /\ \E h \in SentHeaders :
        LET data == TaskBody(JStr(TITLE_T), Absent, Absent)
            request == Request("create_task", h, 0, data, NoArgs)
            g == Gate(h, now, FALSE)
        IN  /\ g.pass
            /\ Answer(request, g, "create_task",
                      create_task(g.current_user, data, Store))
            /\ issued' = issued

NextTasks ==
    \/ CreateTaskAmong
    \/ GetTasks
    \/ GetTask
    \/ UpdateTask
    \/ DeleteTask
    \/ AdminGetAllTasks
    \/ AdminDeleteTask
    \/ Register
    \/ Login
    \/ Logout
    \/ Teardown

SpecTasks == InitTasks /\ [][NextTasks]_vars

\* C16: no request changes the user_id of an existing task: after every step
\* (create of another task, update, delete of another task, listing,
\* register, login, logout) each stored task either was stored before the
\* step under the same id with the same user_id, or was created by the step
\* under an id never given out before.
C16_UserIdImmutable ==
    [][\A j \in tasks' :
          \/ \E k \in tasks : k.id = j.id /\ k.user_id = j.user_id
          \/ /\ j.id >= taskSeq
             /\ \A k \in tasks : k.id # j.id]_vars

\* an owner's PUT went through while another user's task was stored
C16_UpdatedBesideAnother ==
    /\ req.route = "update_task"
    /\ resp.status = 200
    /\ Verified(req, now)
    /\ \E k \in tasks :
        /\ k.id = req.task_id
        /\ k.user_id = Claims(req, now).user_id
        /\ k.title = TITLE_U
        /\ \E j \in tasks : j.id # k.id /\ j.user_id # k.user_id

\* the query of the request carries all=true, in any letter case
AsksAll(request) ==
    /\ request.args.all # Absent
    /\ request.args.all.t = "str"
    /\ str_lower(request.args.all.v) = TRUE_TEXT

\* the stored tasks a GET /tasks of `request` may list: the caller's own, or
\* every user's when `wide`, of the status asked for
ListingScope(request, wide) ==
    {k \in tasks :
        /\ wide \/ k.user_id = Claims(request, now).user_id
        /\ Truthy(request.args.status) => k.status = request.args.status.v}

\* C17: a GET /tasks answered 200 to a caller whose role is not admin lists
\* only tasks whose user_id is the caller's, and counts only those, whether
\* or not the query carries all=true; for an admin all=true widens the
\* listing and the count to every user's tasks, and without all=true the
\* admin too gets only its own.
C17_ListingScope ==
    (req.route = "get_tasks" /\ resp.status = 200) =>
        LET wide == Claims(req, now).role = ADMIN /\ AsksAll(req)
            listed == resp.body.data.tasks
        IN  /\ \A i \in DOMAIN listed :
                \E k \in ListingScope(req, wide) : TaskView(k) = listed[i]
            /\ resp.body.data.pagination.total =
                   Cardinality(ListingScope(req, wide))
            /\ (wide /\ ~Truthy(req.args.page)) =>
                   \A k \in ListingScope(req, TRUE) :
                       \E i \in DOMAIN listed : listed[i] = TaskView(k)

\* a plain user asked for all=true while an admin's task was stored, and was
\* shown its own task only
C17_AllRefusedToUser ==
    /\ req.route = "get_tasks"
    /\ resp.status = 200
    /\ AsksAll(req)
    /\ Claims(req, now).role # ADMIN
    /\ Len(resp.body.data.tasks) = 1
    /\ \E k \in tasks : k.user_id # Claims(req, now).user_id

(***************************************************************************)
(* After logout.  SpecLogout starts where SpecTasks does; each client also *)
(* notes, next to the token it holds, whether it has logged out with it    *)
(* (out), and goes on presenting the token while the clock runs past its   *)
(* expiry.                                                                 *)
(***************************************************************************)
InitLogout ==
    /\ users = PagingUsers.users
    /\ userSeq = PagingUsers.userSeq
    /\ tasks = {}
    /\ taskSeq = 1
    /\ now = 0
    /\ issued = {[token |-> generate_token(u.id, u.role, 0), user_id |-> u.id,
                  role |-> u.role, at |-> 0, out |-> FALSE] :
                    u \in PagingUsers.users}
    /\ req = NoRequest
    /\ resp = NoResponse
    /\ trace = NoTrace
    /\ pool = PoolSize
    /\ inflight = EmptyBag

\* POST /api/v1/auth/logout; the client notes the token it logged out with
LogoutNoted ==
    /\ req = NoRequest
    /\ \E h \in Headers :
        LET request == Request("logout", h, 0, NoJson, NoArgs)
            g == Gate(h, now, FALSE)
        IN  /\ IF g.pass
               THEN Serve(request, g, "logout", logout(g.current_user, Store))
               ELSE Reject(request, g)
            /\ issued' = IF g.pass
                         THEN {IF Header(<<Bearer, x.token>>) = h
                               THEN [x EXCEPT !.out = TRUE] ELSE x : x \in issued}
                         ELSE issued

NextLogout ==
    \/ LogoutNoted
    \/ GetCurrentUser
    \/ GetAllUsers
    \/ CreateTask
    \/ GetTasks
    \/ GetTask
    \/ UpdateTask
    \/ DeleteTask
    \/ AdminGetAllTasks
    \/ AdminDeleteTask
    \/ Tick
    \/ Teardown

SpecLogout == InitLogout /\ [][NextLogout]_vars

\* this step answers a request to `route` that presents the token of grant g
Presents(route, g) ==
    req = NoRequest /\ req'.route = route /\ req'.auth = Header(<<Bearer, g.token>>)

\* C18: POST /auth/logout changes no user or task row and runs no statement,
\* so nothing about the token is recorded; a token a client has logged out
\* with is accepted afterwards on every protected route until its expiry
\* (never 401; 200 on /auth/me and /auth/logout; on the admin routes 403
\* exactly for a role other than admin), and is refused 401 once expired,
\* like any other token.
C18_LogoutStateless ==
    [][/\ (req = NoRequest /\ req'.route = "logout") =>
            /\ users' = users /\ tasks' = tasks
            /\ userSeq' = userSeq /\ taskSeq' = taskSeq
            /\ trace'.queries = <<>>
       /\ \A g \in issued : \A route \in ProtectedRoutes :
            (g.out /\ Presents(route, g)) =>
                IF now < g.at + JWT_EXPIRY_HOURS
                THEN /\ resp'.status # 401
                     /\ route \in {"get_current_user", "logout"} =>
                            resp'.status = 200
                     /\ route \in AdminRoutes =>
                            (resp'.status = 403 <=> g.role # ADMIN)
                     /\ trace'.current_user.user_id = g.user_id
                ELSE now > g.at + JWT_EXPIRY_HOURS => resp'.status = 401]_vars

\* a token its client logged out with was presented again and a task was
\* created for its user
C18_CreatedAfterLogout ==
    /\ req.route = "create_task"
    /\ resp.status = 201
    /\ \E g \in issued :
        /\ g.out
        /\ req.auth = Header(<<Bearer, g.token>>)
        /\ \E k \in tasks : k.user_id = g.user_id

(***************************************************************************)
(* Deleting a user.  No route deletes a user; SpecDelete applies           *)
(* UserModel.delete to the store between requests, the way a maintenance   *)
(* script or a later route would call it.                                  *)
(***************************************************************************)

\* what the store does to the tasks rows of a deleted users row: nothing,
\* the ownership relationship being kept by the application and not by
\* cascading constraints of the store
tasks_on_user_delete(rows, user_id) == rows

\* UserModel.delete: DELETE FROM users WHERE id
UserModel_delete(st, user_id) ==
    [st EXCEPT !.users = {u \in @ : u.id # user_id},
               !.tasks = tasks_on_user_delete(@, user_id)]

\* TaskModel.delete_by_user: DELETE FROM tasks WHERE user_id
TaskModel_delete_by_user(st, user_id) ==
    [st EXCEPT !.tasks = {k \in @ : k.user_id # user_id}]

\* UserModel.delete(user_id), called between requests
DeleteUser ==
    /\ req = NoRequest
    /\ \E u \in users :
        LET st == UserModel_delete(Store, u.id)
        IN  /\ users' = st.users
            /\ tasks' = st.tasks
            /\ userSeq' = st.userSeq
            /\ taskSeq' = st.taskSeq
    /\ UNCHANGED <<now, issued, req, resp, trace, pool, inflight>>

\* TaskModel.delete_by_user(user_id), called between requests
DeleteTasksOfUser ==
    /\ req = NoRequest
    /\ \E id \in 1..MaxUsers :
        LET st == TaskModel_delete_by_user(Store, id)
        IN  /\ users' = st.users
            /\ tasks' = st.tasks
            /\ userSeq' = st.userSeq
            /\ taskSeq' = st.taskSeq
    /\ UNCHANGED <<now, issued, req, resp, trace, pool, inflight>>

NextDelete ==
    \/ CreateTaskAmong
    \/ GetTasks
    \/ UpdateTask
    \/ DeleteTask
    \/ DeleteUser
    \/ DeleteTasksOfUser
    \/ Teardown

SpecDelete == InitTasks /\ [][NextDelete]_vars

\* C19: deleting a user cascades to that user's tasks: whenever a step
\* removes a users row, no stored task has the removed user's id as its
\* user_id after the step.
C19_DeleteCascades ==
    [][\A u \in users :
          (\A v \in users' : v.id # u.id) =>
              \A k \in tasks' : k.user_id # u.id]_vars

\* a task is stored whose owner's row is gone
C19_Orphaned ==
    \E k \in tasks : \A u \in users : u.id # k.user_id

(***************************************************************************)
(* Text with markup characters.  SpecEscape starts where SpecTasks does;   *)
(* the task created has "&" as its title and "<" as its description, and   *)
(* updates are followed while the stored texts stay within MaxText.        *)
(***************************************************************************)
AMP == <<"&">>
LT == <<"<">>

\* POST /api/v1/tasks with a title and a description html.escape rewrites
CreateTaskEscaped ==
    /\ req = NoRequest
    /\ \E h \in SentHeaders :
        LET data == TaskBody(JStr(AMP), JStr(LT), Absent)
            request == Request("create_task", h, 0, data, NoArgs)
            g == Gate(h, now, FALSE)
        IN  /\ g.pass
            /\ Serve(request, g, "create_task",
                     create_task(g.current_user, data, Store))
            /\ issued' = issued

\* PUT /api/v1/tasks/<task_id>, while the stored texts stay within MaxText
UpdateTaskWithin ==
    /\ UpdateTask
    /\ \A k \in tasks' : Len(k.title) <= MaxText /\ Len(k.description) <= MaxText

NextEscape ==
    \/ CreateTaskEscaped
    \/ UpdateTaskWithin
    \/ GetTask
    \/ DeleteTask
    \/ Teardown

SpecEscape == InitTasks /\ [][NextEscape]_vars

\* C20: a PUT /tasks/<id> by the owner answered 200 changes only the fields
\* its body holds: every field of the task the body omits has after the
\* step the value stored before it, and no other task changes.
C20_OmittedFieldsKept ==
    [][(Authenticated("update_task") /\ resp'.status = 200) =>
          \A k \in tasks :
              \E j \in tasks' :
                  /\ j.id = k.id
                  /\ j.user_id = k.user_id
                  /\ k.id # req'.task_id => j = k
                  /\ req'.json.title = Absent => j.title = k.title
                  /\ req'.json.description = Absent =>
                         j.description = k.description
                  /\ req'.json.status = Absent => j.status = k.status]_vars

\* the owner sent a status alone and the stored title, "&amp;" before, is
\* "&amp;amp;" after
C20_EscapedTwice ==
    /\ req.route = "update_task"
    /\ resp.status = 200
    /\ req.json.title = Absent
    /\ req.json.status # Absent
    /\ \E k \in tasks :
        /\ k.id = req.task_id
        /\ k.user_id = Claims(req, now).user_id
        /\ k.title = html_escape(html_escape(AMP))

(***************************************************************************)
(* Titles at the limits.  SpecTitles starts where SpecTasks does; tasks    *)
(* are created with titles that are blank, MaxTitleLen long, and           *)
(* MaxTitleLen long with a character html.escape rewrites.                 *)
(***************************************************************************)
TitledBodies ==
    {TaskBody(JStr(TITLE_T), Absent, Absent),
     TaskBody(JStr(<<" ">>), Absent, Absent),
     TaskBody(JStr(Repeat("a", MaxTitleLen)), JStr(<<"d">>), Absent),
     TaskBody(JStr(Repeat("a", MaxTitleLen - 1) \o AMP), Absent, Absent),
     TaskBody(JStr(Repeat("a", MaxTitleLen + 1)), Absent, Absent)}

\* POST /api/v1/tasks with the titles of TitledBodies
CreateTaskTitled ==
    /\ req = NoRequest
    /\ \E h \in SentHeaders : \E data \in TitledBodies :
        LET request == Request("create_task", h, 0, data, NoArgs)
            g == Gate(h, now, FALSE)
        IN  /\ g.pass
            /\ Serve(request, g, "create_task",
                     create_task(g.current_user, data, Store))
            /\ issued' = issued

NextTitles ==
    \/ CreateTaskTitled
    \/ GetTasks
    \/ DeleteTask
    \/ Teardown

SpecTitles == InitTasks /\ [][NextTitles]_vars

\* the body holds a non-empty title of at most 200 characters and no status
TitleWithinAndNoStatus(body) ==
    /\ body.title # Absent
    /\ body.title.t = "str"
    /\ Len(body.title.v) \in 1..MaxTitleLen
    /\ body.status = Absent

\* C21: a POST /tasks with a valid token and a body holding a non-empty
\* title of at most 200 characters and no status is answered 201 and adds
\* exactly one task, owned by the token's user and pending; a GET /tasks
\* with no query by a caller is answered with every task the caller owns
\* (up to the default limit), so with the task just created.
C21_CreateThenListed ==
    [][/\ (Authenticated("create_task") /\ TitleWithinAndNoStatus(req'.json)) =>
            /\ resp'.status = 201
            /\ \E k \in tasks' :
                /\ k \notin tasks
                /\ tasks' = tasks \cup {k}
                /\ k.id = resp'.body.data.task_id
                /\ k.user_id = Claims(req', now).user_id
                /\ k.status = PENDING
       /\ (Authenticated("get_tasks") /\ req'.args = ListArgs(Absent, Absent, Absent, Absent)) =>
            /\ resp'.status = 200
            /\ LET own == {k \in tasks : k.user_id = Claims(req', now).user_id}
                   listed == resp'.body.data.tasks
               IN  Cardinality(own) <= DefaultLimit =>
                       \A k \in own : \E i \in DOMAIN listed : listed[i] = TaskView(k)]_vars

\* a title of exactly 200 characters, one of them "&", was refused
C21_FullTitleRefused ==
    /\ req.route = "create_task"
    /\ Verified(req, now)
    /\ TitleWithinAndNoStatus(req.json)
    /\ Len(req.json.title.v) = MaxTitleLen
    /\ resp.status = 400

\* the body holds an email and a password, neither of them empty
HoldsCredentials(body) ==
    /\ body.email # Absent /\ sanitize_input(body.email) # <<>>
    /\ Truthy(body.password)

\* the users whose email is the one of the body
Matching(body) == {u \in users : u.email = sanitize_input(body.email)}

\* the password of the body is not the one u registered with
WrongPassword(body, u) ==
    \/ body.password.t # "str"
    \/ bcrypt_hashpw(body.password.v, u.password_hash.salt) # u.password_hash

\* C22: a POST /auth/login holding an email and a password is answered 401
\* "Invalid email or password" both when the email matches no user and when
\* the password does not verify against the matching user's hash; the
\* response carries no token and no user or task row changes.
C22_BadCredentialsAlike ==
    [][(/\ req = NoRequest /\ req'.route = "login"
        /\ HoldsCredentials(req'.json)
        /\ \A u \in Matching(req'.json) : WrongPassword(req'.json, u)) =>
          /\ resp'.status = 401
          /\ resp'.body = [success |-> FALSE, error |-> "Invalid email or password"]
          /\ issued' = issued
          /\ users' = users /\ tasks' = tasks
          /\ userSeq' = userSeq /\ taskSeq' = taskSeq]_vars

\* a registered user sent a password other than its own and was refused
C22_WrongPasswordRefused ==
    /\ req.route = "login"
    /\ resp.status = 401
    /\ HoldsCredentials(req.json)
    /\ \E u \in Matching(req.json) : WrongPassword(req.json, u)

\* the role text of a register body with the blanks around it taken off,
\* '' when the body holds no text there
RoleTrimmed(body) ==
    IF body.role # Absent /\ body.role.t = "str" THEN str_strip(body.role.v) ELSE <<>>

\* this step answers a register request with 201 and stores one user, whose
\* role is `role`
RegistersAs(role) ==
    \E u \in users' :
        /\ u \notin users
        /\ users' = users \cup {u}
        /\ u.id = resp'.body.data.user_id
        /\ u.role = role

\* a register request is answered with the status it would get without its
\* role
RoleNeverRejects ==
    resp'.status = register([req'.json EXCEPT !.role = Absent], Store,
                            "salt1").resp.status

\* C23: every stored user's role is user or admin; register stores the
\* body's role when, with the blanks around it taken off, it is user or
\* admin, and stores user when the role is absent or anything else; the
\* role never makes register reject the request.
C23_RoleClosure ==
    [][/\ \A u \in users' : u.role \in {USER, ADMIN}
       /\ (req = NoRequest /\ req'.route = "register") =>
            /\ RoleNeverRejects
            /\ resp'.status = 201 =>
                   RegistersAs(IF RoleTrimmed(req'.json) \in {USER, ADMIN}
                               THEN RoleTrimmed(req'.json) ELSE USER)]_vars

\* a body with the role "root" was registered, as a user
C23_OtherRoleStoredAsUser ==
    /\ req.route = "register"
    /\ resp.status = 201
    /\ RoleTrimmed(req.json) \notin {<<>>, USER, ADMIN}
    /\ \E u \in users : u.id = resp.body.data.user_id /\ u.role = USER

\* C23 as stated: the role is stored only when the body's role is exactly
\* user or admin, and user is stored for any other value.
C23_RoleStoredOnlyWhenExact ==
    [][(req = NoRequest /\ req'.route = "register" /\ resp'.status = 201) =>
          RegistersAs(IF req'.json.role \in {JStr(USER), JStr(ADMIN)}
                      THEN req'.json.role.v ELSE USER)]_vars

(***************************************************************************)
(* Roles changed behind a token.  SpecRoles starts where SpecTasks does;   *)
(* between requests UserModel.update changes a user's role and             *)
(* UserModel.delete removes a user, while the tokens issued before stay in *)
(* the clients' hands.                                                     *)
(***************************************************************************)

\* UserModel.update: UPDATE users SET name, role WHERE id, each only when
\* given; no statement when neither is
UserModel_update(st, user_id, name, role) ==
    [st EXCEPT
       !.users = {IF u.id = user_id
                  THEN [u EXCEPT !.name = IF name # <<>> THEN name ELSE @,
                                 !.role = IF role # <<>> THEN role ELSE @]
                  ELSE u : u \in @}]

\* UserModel.update(user_id, role=role), called between requests
UpdateUserRole ==
    /\ req = NoRequest
    /\ \E u \in users : \E role \in {USER, ADMIN} :
        LET st == UserModel_update(Store, u.id, <<>>, role)
        IN  /\ users' = st.users
            /\ tasks' = st.tasks
            /\ userSeq' = st.userSeq
            /\ taskSeq' = st.taskSeq
    /\ UNCHANGED <<now, issued, req, resp, trace, pool, inflight>>

NextRoles ==
    \/ CreateTask
    \/ GetCurrentUser
    \/ GetAllUsers
    \/ Logout
    \/ GetTasks
    \/ GetTask
    \/ UpdateTask
    \/ DeleteTask
    \/ AdminGetAllTasks
    \/ AdminDeleteTask
    \/ UpdateUserRole
    \/ DeleteUser
    \/ Teardown

SpecRoles == InitTasks /\ [][NextRoles]_vars

\* the access decision a response shows: 401, 403, or 0 for going on to the
\* handler's work
Decision(response) == IF response.status \in {401, 403} THEN response.status ELSE 0

\* the access decision read off the token's claims and the addressed task
\* row alone
DecisionByClaims(request, rows, t) ==
    IF ~Verified(request, t) THEN 401
    ELSE LET claims == Claims(request, t)
             addressed == {k \in rows : k.id = request.task_id}
         IN  IF request.route \in AdminRoutes
             THEN IF claims.role # ADMIN THEN 403 ELSE 0
             ELSE IF request.route = "update_task"
             THEN IF \E k \in addressed : k.user_id # claims.user_id
                  THEN 403 ELSE 0
             ELSE IF request.route \in {"get_task", "delete_task"}
             THEN IF \E k \in addressed : /\ k.user_id # claims.user_id
                                           /\ claims.role # ADMIN
                  THEN 403 ELSE 0
             ELSE 0

\* C24: the access decision of every request on a protected route (401 or
\* 403 or going on) is the one the token's claims and the addressed task
\* row give, whatever role the users table holds for the caller and
\* whether or not it still holds the caller; the handler is given the
\* token's user_id and role.
C24_DecisionByClaimsAlone ==
    [][(req = NoRequest /\ req'.route \in ProtectedRoutes) =>
          /\ Decision(resp') = DecisionByClaims(req', tasks, now)
          /\ Verified(req', now) =>
                 /\ trace'.current_user.user_id = Claims(req', now).user_id
                 /\ trace'.current_user.role = Claims(req', now).role]_vars

\* a caller whose row now says user, or is gone, read another user's task
\* with the admin token it was issued before
C24_StaleAdminRead ==
    /\ req.route = "get_task"
    /\ resp.status = 200
    /\ Verified(req, now)
    /\ Claims(req, now).role = ADMIN
    /\ \A u \in users : u.id = Claims(req, now).user_id => u.role = USER
    /\ \E k \in tasks : k.id = req.task_id /\ k.user_id # Claims(req, now).user_id

(***************************************************************************)
(* Creating for a deleted user.  SpecOrphan starts where SpecTasks does;   *)
(* UserModel.delete removes users between requests and the tokens issued   *)
(* to them are presented to POST /tasks afterwards.                        *)
(***************************************************************************)

\* whether the store refuses an INSERT INTO tasks for this user_id: never,
\* the ownership relationship being kept by the application and not by
\* constraints of the store
tasks_insert_refused(st, user_id) == FALSE

\* POST /api/v1/tasks; an INSERT the store refuses raises in execute_query
\* and create_task answers 500
CreateTaskStored ==
    /\ req = NoRequest
    /\ \E h \in SentHeaders : \E data \in {TaskBody(JStr(TITLE_T), Absent, Absent),
                                           TaskBody(Absent, Absent, Absent)} :
        LET request == Request("create_task", h, 0, data, NoArgs)
            g == Gate(h, now, FALSE)
            r == create_task(g.current_user, data, Store)
        IN  /\ g.pass
            /\ IF r.resp.status = 201
                  /\ tasks_insert_refused(Store, g.current_user.user_id)
               THEN Serve(request, g, "create_task",
                          R(error_response("Failed to create task", 500), Store,
                            <<"TaskModel.create">>))
               ELSE Serve(request, g, "create_task", r)
            /\ issued' = issued

NextOrphan ==
    \/ CreateTaskStored
    \/ GetTasks
    \/ DeleteTask
    \/ DeleteUser
    \/ Teardown

SpecOrphan == InitTasks /\ [][NextOrphan]_vars

\* C25: a task is only ever created with an owner that exists in the user
\* table at creation time: a POST /tasks with an unexpired token whose user
\* row has been deleted adds no task row, and every task row a step adds
\* has the id of a stored user as its user_id.
C25_CreatedForStoredUser ==
    [][/\ (/\ Authenticated("create_task")
           /\ \A u \in users : u.id # Claims(req', now).user_id) =>
              tasks' = tasks
       /\ \A k \in tasks' :
              k \notin tasks => \E u \in users' : u.id = k.user_id]_vars

\* POST /tasks was answered 201 for a token whose user row is gone, and the
\* task is stored under that user_id
C25_CreatedForDeletedUser ==
    /\ req.route = "create_task"
    /\ resp.status = 201
    /\ Verified(req, now)
    /\ \A u \in users : u.id # Claims(req, now).user_id
    /\ \E k \in tasks : /\ k.id = resp.body.data.task_id
                         /\ k.user_id = Claims(req, now).user_id

(***************************************************************************)
(* Task requests side by side.  SpecRace starts after user 1 has created a *)
(* task; PUT and DELETE requests for it, from its owner and from the       *)
(* admin, run statement by statement on their own connections.  A          *)
(* statement with commit=True is one step: the UPDATE or DELETE acts on    *)
(* the rows committed at that moment.                                      *)
(***************************************************************************)
InitRace ==
    /\ users = PagingUsers.users
    /\ userSeq = PagingUsers.userSeq
    /\ tasks = TaskModel_create([users |-> PagingUsers.users, tasks |-> {},
                                 userSeq |-> PagingUsers.userSeq, taskSeq |-> 1],
                                TITLE_T, <<>>, PENDING, 1).tasks
    /\ taskSeq = 2
    /\ now = 0
    /\ issued = {[token |-> generate_token(u.id, u.role, 0), user_id |-> u.id,
                  role |-> u.role, at |-> 0] : u \in PagingUsers.users}
    /\ req = NoRequest
    /\ resp = NoResponse
    /\ trace = NoTrace
    /\ pool = PoolSize
    /\ inflight = EmptyBag

\* a task request in flight: its route, the current_user token_required
\* passed on, its arguments, pc the statement it is about to run, db whether
\* g holds a connection, write the response body's data computed before the
\* UPDATE, status the response's
TaskContext(route, current_user, task_id, data) ==
    [route |-> route, pc |-> "find_by_id", current_user |-> current_user,
     task_id |-> task_id, data |-> data, db |-> FALSE, acquired |-> 0,
     write |-> None, status |-> 0]

\* a PUT or DELETE /api/v1/tasks/<task_id> arrives and passes token_required
ArriveTask ==
    /\ BagCardinality(inflight) < MaxRacing
    /\ \E h \in SentHeaders : \E k \in tasks :
        \E call \in {<<"update_task", FullUpdate>>,
                      <<"update_task", TaskBody(Absent, Absent, JStr(COMPLETED))>>,
                      <<"delete_task", NoJson>>} :
        LET g == Gate(h, now, FALSE)
        IN  /\ g.pass
            /\ inflight' = inflight (+) SetToBag({
                    TaskContext(call[1], g.current_user, k.id, call[2])})
    /\ UNCHANGED <<users, tasks, userSeq, taskSeq, now, issued, req, resp, trace,
                   pool>>

\* update_task / delete_task from TaskModel.find_by_id to the last check
\* before the write: the handler answers there, or goes on to the write
FindTask ==
    /\ \E c \in Inflight :
        /\ c.pc = "find_by_id"
        /\ LET a == get_db(c, pool)
               r == IF c.route = "update_task"
                    THEN update_task(c.current_user, c.task_id, c.data, Store)
                    ELSE delete_task(c.current_user, c.task_id, Store)
           IN  IF ~a.ok
               THEN /\ Step(c, [c EXCEPT !.pc = "close_db", !.status = 500])
                    /\ pool' = pool
               ELSE /\ pool' = a.pool
                    /\ Step(c, IF r.resp.status # 200
                               THEN [a.c EXCEPT !.pc = "close_db",
                                                !.status = r.resp.status]
                               ELSE [a.c EXCEPT !.pc = "write",
                                                !.write = IF c.route = "update_task"
                                                          THEN r.resp.body.data
                                                          ELSE None])
    /\ UNCHANGED <<users, tasks, userSeq, taskSeq, now, issued, req, resp, trace>>

\* TaskModel.update / TaskModel.delete: the statement and its commit, then
\* the handler's 200
WriteTask ==
    /\ \E c \in Inflight :
        /\ c.pc = "write"
        /\ LET st == IF c.route = "update_task"
                     THEN TaskModel_update(Store, c.task_id, c.write.title,
                                           c.write.description, c.write.status)
                     ELSE TaskModel_delete(Store, c.task_id)
           IN  /\ tasks' = st.tasks
               /\ Step(c, [c EXCEPT !.pc = "close_db", !.status = 200])
    /\ UNCHANGED <<users, userSeq, taskSeq, now, issued, req, resp, trace, pool>>

\* the response is sent; teardown_appcontext runs close_db
CloseTask ==
    /\ \E c \in Inflight :
        /\ c.pc = "close_db"
        /\ pool' = close_db(c.db, pool)
        /\ inflight' = inflight (-) SetToBag({c})
    /\ UNCHANGED <<users, tasks, userSeq, taskSeq, now, issued, req, resp, trace>>

NextRace ==
    \/ ArriveTask
    \/ FindTask
    \/ WriteTask
    \/ CloseTask

SpecRace == InitRace /\ [][NextRace]_vars

\* C26: when a PUT /tasks/<id> returns 200 the task is in the store with
\* the title, description and status the response reports, also when a
\* DELETE of the task has committed between the PUT's find_by_id and its
\* UPDATE.
C26_UpdatedTaskStored ==
    [][\A c \in Inflight :
          (/\ c.route = "update_task" /\ c.pc = "write"
           /\ Step(c, [c EXCEPT !.pc = "close_db", !.status = 200])) =>
              \E k \in tasks' :
                  /\ k.id = c.task_id
                  /\ k.title = c.write.title
                  /\ k.description = c.write.description
                  /\ k.status = c.write.status]_vars

\* a PUT is about to answer 200 for a task no row of the store holds
C26_UpdatedNothing ==
    \E c \in Inflight :
        /\ c.route = "update_task"
        /\ c.pc = "close_db"
        /\ c.status = 200
        /\ \A k \in tasks : k.id # c.task_id

\* the routes registered for GET
GetRoutes ==
    {"get_current_user", "get_all_users", "get_tasks", "get_task",
     "admin_get_all_tasks"}

\* C27: every request answered 400, 401, 403, 404 or 409, and every GET
\* request whatever its answer, leaves the users table and the tasks table
\* as they were before the request.
C27_RefusedAndGetChangeNothing ==
    [][(/\ req = NoRequest /\ req' # NoRequest
        /\ \/ resp'.status \in {400, 401, 403, 404, 409}
           \/ req'.route \in GetRoutes) =>
          /\ users' = users
          /\ tasks' = tasks]_vars

\* a DELETE by a caller who neither owns the task nor is admin was answered
\* 403 and the task is stored
C27_RefusedDeleteKept ==
    /\ req.route = "delete_task"
    /\ resp.status = 403
    /\ trace.queries = <<"TaskModel.find_by_id">>
    /\ \E k \in tasks : k.id = req.task_id /\ k.user_id # trace.current_user.user_id

====
